---- MODULE Spec2Model ----
(***************************************************************************)
(* Chart export pipeline of CosmoSave-Graficos (src/graficos.js): the      *)
(* store loop of main(), the chart tasks run through pLimit(CONCURRENCY),  *)
(* the scratch presentation of each store, and withRetry with its backoff. *)
(***************************************************************************)
EXTENDS Integers, Sequences, FiniteSets, TLC

\* ------------------------------------------------------------------ bounds
NumStores == 2          \* entries of TIENDAS that are modelled
MaxCharts == 3          \* most charts embedded in one store's sheet
MaxTotalCharts == 3     \* most charts in the whole spreadsheet

\* ------------------------------------------------------- program constants
CONCURRENCY == 2
MAX_RETRIES == 5
WAIT_START == 700       \* let wait = 700
WAIT_START_PNG == 600   \* let wait = 600, the withRetry of the PNG pipeline
WAIT_CAP == 8000        \* Math.min(wait * 2, 8000)
JITTER_MS == 300        \* Math.floor(Math.random() * 300)

Stores == 1..NumStores
Charts == 1..MaxCharts

Min(a, b) == IF a < b THEN a ELSE b

RECURSIVE SumTo(_, _)
SumTo(f, n) == IF n = 0 THEN 0 ELSE f[n] + SumTo(f, n - 1)

VARIABLES
  pc,           \* position of main(): the await it is suspended at
  cur,          \* index into Object.entries(TIENDAS) of the store being processed
  sheet,        \* the spreadsheet: number of embedded charts of each store's sheet
  mi,           \* loop variable i of the withRetry main() is inside
  msleep,       \* main() is in the backoff sleep of that withRetry
  dateFolder,   \* per store: ensureDatedSubfolder "unresolved", "resolved" (an id returned) or "failed"
  pres,         \* per store: its scratch presentation: "none", "copyFailed", "created" (the copy
                \* exists), "openFailed" (exists, createTempPresentation threw), "open", "deleted"
  destroyOps,   \* per store: number of times the 'drive.delete pres' withRetry was entered
  total,        \* main's counter of uploaded PDFs
  reported,     \* the total printed by the final console.log, -1 before
  task,         \* per chart of the current store: position of its limit() callback
  queue,        \* pLimit: callbacks waiting for a slot, in submission order
  activeCount,  \* pLimit: callbacks holding a slot
  slide,        \* chart elements present on the shared slide of the current presentation
  outcome,      \* per chart of the current store: "none", "ok" (log OK + total++) or "fail" (catch)
  uploaded,     \* charts of the current store whose uploadPDF returned
  uploads,      \* per store: number of PDFs uploaded to its dated folder
  dateFolderId, \* main's local of the iteration: the store under whose folderId the
                \* dated folder it names lies (0: not assigned)
  uploadedTo,   \* the uploads sent: <<store of the task, store of the parent folder>>
  env,          \* the required names of process.env that have a value
  remote,       \* TRUE once a call to Sheets, Slides or Drive was issued
  \* one call of withRetry(tag, fn), followed on its own
  rsrc,         \* which copy of withRetry of the repository is running
  rtag,         \* its tag argument
  rpc,          \* "call" (fn pending), "sleep", "returned" or "raised"
  ri,           \* its loop variable i
  rwait,        \* its variable wait
  rcalls,       \* number of times fn was invoked
  rerrs,        \* messages of the errors fn has thrown, in order
  rwaits,       \* base waits of the backoff sleeps so far, in order
  rslept,       \* duration passed to the sleep in progress (0: none)
  rlogs,        \* the retry diagnostics printed, as <<i, wait>>
  rthrown,      \* message of the Error that withRetry threw, as the parts of
                \* its template literal (<< >> before)
  rresolved,    \* the value the successful attempt of fn resolved with ("none" before)
  rret,         \* the value withRetry returned ("none" before)
  \* ensureDatedSubfolder(parentId, dateStr), called twice against one Drive
  drive,        \* the folders of the Drive, in the order files.list reports them:
                \* a sequence of [name, parent, trashed]; a folder's id is its index
  drive0,       \* how many folders the Drive held before the first call
  fargs,        \* the arguments <<parentId, dateStr>> of the two calls
  fcall,        \* the call that runs or ran last (0 before the first)
  fpc,          \* "off", "idle", or the withRetry the call is in: "list", "create"
  fi,           \* the attempt number of that withRetry
  fret,         \* what each finished call returned: a folder id, or 0 if it threw
  flists,       \* withRetry('drive.list datedFolder') entered by each call
  fcreates,     \* withRetry('drive.create datedFolder') entered by each call
  fkept,        \* FALSE once somebody else trashed a folder between the calls
  \* the transform insertChartAndFit computes
  tpc,          \* "off", "measured" (the size read-back returned), "done"
  tin,          \* [w, h]: the size magnitudes read back (0: none); [pgW, pgH, margin]
  tout,         \* [scaleX, scaleY, translateX, translateY], each a fraction [num, den]
  \* the file name a limit() callback composes; a string is the sequence of
  \* its characters
  npc,          \* "off", "called", "named"
  nin,          \* [tienda, ctitle (c.title), idx, date (DATE_STR)]
  nout,         \* [title, fileName]
  \* the chart elements of one store's slide, by their object ids
  enow,         \* Date.now() (0: no such harness runs)
  echarts,      \* sh.charts: the chartId of each chart of the store, in order
  etask,        \* per chart: [st, i, id]: the step of its callback, the attempt of the
                \* withRetry it is in, and its chartElemId (<< >> before it started)
  epage,        \* the object ids of the elements on the slide
  ereqs,        \* the requests issued so far that name an element:
                \* [task, kind, objectId]
  \* crearGraficosParaTodas, run again and again on one spreadsheet
  ssheets,      \* the sheets of the spreadsheet, in order; a sheet's id is its index:
                \* [title, type, by (the run that made it, 0: none), vals (cells hold
                \* entered values), a1 (the pivot table in A1, 0: none), made (the
                \* chart G1..G4 a chart sheet was added for, 0: no chart), src (the
                \* sheet its ranges are in)]
  gpc,          \* "off", "idle", or the await the run is at: "list" (line 322),
                \* "tiendaGet" (line 367), "addSheet" (line 381), "batch" (line 524)
  gruns,        \* runs of crearGraficosParaTodas started so far
  hojas,        \* the sheet ids the run loops over
  hidx,         \* index into hojas of the store being processed
  calcId,       \* calcId of that crearGraficosDeTienda (0: not yet known)
  reqs,         \* reqs of that crearGraficosDeTienda, as pushed so far
  gcalls        \* the calls of crearGraficosDeTienda so far: <<run, sheetId>>

pvars == <<pc, cur, sheet, mi, msleep, dateFolder, pres, destroyOps, total,
           reported, task, queue, activeCount, slide, outcome, uploaded, uploads,
           dateFolderId, uploadedTo, env, remote>>

rvars == <<rsrc, rtag, rpc, ri, rwait, rcalls, rerrs, rwaits, rslept, rlogs, rthrown,
           rresolved, rret>>

\* the variables a chart pipeline step leaves alone
fvars == <<drive, drive0, fargs, fcall, fpc, fi, fret, flists, fcreates, fkept>>

tvars == <<tpc, tin, tout>>

nvars == <<npc, nin, nout>>

evars == <<enow, echarts, etask, epage, ereqs>>

gvars == <<ssheets, gpc, gruns, hojas, hidx, calcId, reqs, gcalls>>

ovars == <<fvars, tvars, nvars, evars, gvars, gvars>>

hvars == <<rvars, ovars>>

vars == <<pvars, hvars>>

\* ------------------------------------------------------------- chart tasks
Idle     == [st |-> "idle",        i |-> 0, slp |-> FALSE]
Queued   == [st |-> "queued",      i |-> 0, slp |-> FALSE]
Finished == [st |-> "finished",    i |-> 0, slp |-> FALSE]
Call(step) == [st |-> step, i |-> 1, slp |-> FALSE]

\* the awaits of a chart task that are wrapped in withRetry
TaskRetrySteps == {"createChart", "getAfterInsert", "fit", "export", "upload", "deleteElement"}
\* every await of a chart task
TaskSteps == TaskRetrySteps \cup {"readStream", "pause"}

InFlight(c) == task[c].st \in TaskSteps
\* as AllFinished, but one settled callback is enough (Promise.race for Promise.all)
AllFinished_AnyFinished(t) == \E c \in Charts : t[c].st = "finished"

AllFinished(t) == \A c \in Charts : t[c].st \in {"idle", "finished"}

\* as LastAttempt, but the loop gives up one attempt early
LastAttempt_OneEarly(i) == i = MAX_RETRIES - 1

\* withRetry, line 60: the attempt that just failed was the last one
LastAttempt(i) == i = MAX_RETRIES

\* as SubmitBatch, but the last CONCURRENCY callbacks are the ones started
SubmitBatch_LastFirst(n) ==
  [c \in Charts |-> IF c > n THEN Idle
                    ELSE IF c > n - CONCURRENCY THEN Call("createChart")
                    ELSE Queued]

\* pLimit(CONCURRENCY): charts.map(limit) enqueues every callback in index
\* order and the first CONCURRENCY of them are started
SubmitBatch(n) ==
  [c \in Charts |-> IF c > n THEN Idle
                    ELSE IF c <= CONCURRENCY THEN Call("createChart")
                    ELSE Queued]

SubmitQueue(n) ==
  IF n <= CONCURRENCY THEN << >>
  ELSE [k \in 1..(n - CONCURRENCY) |-> CONCURRENCY + k]

\* pLimit next(): the slot of a settled callback goes to the head of the queue
StartNext(t) ==
  IF queue # << >> THEN [t EXCEPT ![Head(queue)] = Call("createChart")] ELSE t

\* as TaskEnd, but the limiter never gives a slot back
TaskEnd_LeaksSlot(t) ==
  /\ task' = StartNext(t)
  /\ queue' = IF queue # << >> THEN Tail(queue) ELSE queue
  /\ activeCount' = activeCount
  /\ IF AllFinished(StartNext(t))
       THEN /\ pc' = "destroy"
            /\ mi' = 1
            /\ destroyOps' = [destroyOps EXCEPT ![cur] = @ + 1]
       ELSE UNCHANGED <<pc, mi, destroyOps>>

\* a limit() callback settles (t is the task table with it finished); when it
\* was the last one Promise.all resolves and main enters the destroy withRetry
TaskEnd(t) ==
  /\ task' = StartNext(t)
  /\ queue' = IF queue # << >> THEN Tail(queue) ELSE queue
  /\ activeCount' = IF queue # << >> THEN activeCount ELSE activeCount - 1
  /\ IF AllFinished(StartNext(t))
       THEN /\ pc' = "destroy"
            /\ mi' = 1
            /\ destroyOps' = [destroyOps EXCEPT ![cur] = @ + 1]
       ELSE UNCHANGED <<pc, mi, destroyOps>>

\* as TaskCatch, but the callback rethrows: Promise.all rejects and main() with it
TaskCatch_Rethrows(c) ==
  /\ outcome' = [outcome EXCEPT ![c] = "fail"]
  /\ task' = [task EXCEPT ![c] = Finished]
  /\ pc' = "crashed"
  /\ UNCHANGED <<hvars, cur, sheet, mi, msleep, dateFolder, pres, destroyOps, total,
                 reported, queue, activeCount, slide, uploaded, uploads,
                 dateFolderId, uploadedTo, env, remote>>

\* catch (e) of the limit() callback, lines 299-301: log, nothing rethrown
TaskCatch(c) ==
  /\ outcome' = [outcome EXCEPT ![c] = "fail"]
  /\ TaskEnd([task EXCEPT ![c] = Finished])
  /\ UNCHANGED <<hvars, cur, sheet, msleep, dateFolder, pres, total, reported,
                 slide, uploaded, uploads, dateFolderId, uploadedTo, env, remote>>

\* an attempt of a withRetry inside a chart task fails and attempts remain
TaskAttemptFail(c) ==
  /\ pc = "batch"
  /\ task[c].st \in TaskRetrySteps /\ ~task[c].slp
  /\ ~LastAttempt(task[c].i)
  /\ task' = [task EXCEPT ![c].slp = TRUE]
  /\ UNCHANGED <<hvars, pc, cur, sheet, mi, msleep, dateFolder, pres, destroyOps, total,
                 reported, queue, activeCount, slide, outcome, uploaded, uploads,
                 dateFolderId, uploadedTo, env, remote>>

\* the backoff sleep ends and the next attempt is issued
TaskSleepDone(c) ==
  /\ pc = "batch"
  /\ task[c].slp
  /\ task' = [task EXCEPT ![c].slp = FALSE, ![c].i = @ + 1]
  /\ UNCHANGED <<hvars, pc, cur, sheet, mi, msleep, dateFolder, pres, destroyOps, total,
                 reported, queue, activeCount, slide, outcome, uploaded, uploads,
                 dateFolderId, uploadedTo, env, remote>>

\* as TaskRetryExhausted, but the catch block of the callback is empty
TaskRetryExhausted_Silent(c) ==
  /\ pc = "batch"
  /\ task[c].st \in TaskRetrySteps /\ ~task[c].slp
  /\ LastAttempt(task[c].i)
  /\ TaskEnd([task EXCEPT ![c] = Finished])
  /\ UNCHANGED <<hvars, cur, sheet, msleep, dateFolder, pres, total, reported, outcome,
                 slide, uploaded, uploads, dateFolderId, uploadedTo, env, remote>>

\* the last attempt fails: withRetry throws into the callback's catch
TaskRetryExhausted(c) ==
  /\ pc = "batch"
  /\ task[c].st \in TaskRetrySteps /\ ~task[c].slp
  /\ LastAttempt(task[c].i)
  /\ TaskCatch(c)

TaskGoto(c, step) ==
  /\ task' = [task EXCEPT ![c] = Call(step)]
  /\ UNCHANGED <<hvars, pc, cur, sheet, mi, msleep, dateFolder, pres, destroyOps, total,
                 reported, queue, activeCount, outcome>>

\* insertChartAndFit: createSheetsChart succeeded, the element is on the slide
CreateChartOk(c) ==
  /\ pc = "batch"
  /\ task[c].st = "createChart" /\ ~task[c].slp
  /\ slide' = slide \cup {c}
  /\ TaskGoto(c, "getAfterInsert")
  /\ UNCHANGED <<uploaded, uploads, dateFolderId, uploadedTo, env, remote>>

\* as GetAfterInsertOk, but the export is issued without the transform update
GetAfterInsertOk_ExportsAtOnce(c) ==
  /\ pc = "batch"
  /\ task[c].st = "getAfterInsert" /\ ~task[c].slp
  /\ TaskGoto(c, "export")
  /\ UNCHANGED <<slide, uploaded, uploads, dateFolderId, uploadedTo, env, remote>>

\* insertChartAndFit: the size read-back returned, the transform update is issued
GetAfterInsertOk(c) ==
  /\ pc = "batch"
  /\ task[c].st = "getAfterInsert" /\ ~task[c].slp
  /\ TaskGoto(c, "fit")
  /\ UNCHANGED <<slide, uploaded, uploads, dateFolderId, uploadedTo, env, remote>>

\* insertChartAndFit returns, exportPresentationPDF issues the export
FitOk(c) ==
  /\ pc = "batch"
  /\ task[c].st = "fit" /\ ~task[c].slp
  /\ TaskGoto(c, "export")
  /\ UNCHANGED <<slide, uploaded, uploads, dateFolderId, uploadedTo, env, remote>>

\* drive.files.export answered with a stream, which is now read
ExportOk(c) ==
  /\ pc = "batch"
  /\ task[c].st = "export" /\ ~task[c].slp
  /\ TaskGoto(c, "readStream")
  /\ UNCHANGED <<slide, uploaded, uploads, dateFolderId, uploadedTo, env, remote>>

\* 'end' of the stream: the buffer is handed to uploadPDF
ReadStreamEnd(c) ==
  /\ pc = "batch"
  /\ task[c].st = "readStream"
  /\ TaskGoto(c, "upload")
  /\ UNCHANGED <<slide, uploaded, uploads, dateFolderId, uploadedTo, env, remote>>

\* as ReadStreamError, but the catch counts the chart
ReadStreamError_Counted(c) ==
  /\ pc = "batch"
  /\ task[c].st = "readStream"
  /\ outcome' = [outcome EXCEPT ![c] = "fail"]
  /\ total' = total + 1
  /\ TaskEnd([task EXCEPT ![c] = Finished])
  /\ UNCHANGED <<hvars, cur, sheet, msleep, dateFolder, pres, reported,
                 slide, uploaded, uploads, dateFolderId, uploadedTo, env, remote>>

\* 'error' of the stream: the promise rejects, outside any withRetry
ReadStreamError(c) ==
  /\ pc = "batch"
  /\ task[c].st = "readStream"
  /\ TaskCatch(c)

\* uploadPDF returned, deletePageElement is issued
UploadOk(c) ==
  /\ pc = "batch"
  /\ task[c].st = "upload" /\ ~task[c].slp
  /\ uploaded' = uploaded \cup {c}
  /\ uploads' = [uploads EXCEPT ![cur] = @ + 1]
  /\ uploadedTo' = uploadedTo \cup {<<cur, dateFolderId>>}
  /\ TaskGoto(c, "deleteElement")
  /\ UNCHANGED <<slide, dateFolderId, env, remote>>

\* as DeleteElementOk, but the pause is taken after the slot was given back
DeleteElementOk_PauseOutsideLimit(c) ==
  /\ pc = "batch"
  /\ task[c].st = "deleteElement" /\ ~task[c].slp
  /\ slide' = slide \ {c}
  /\ outcome' = [outcome EXCEPT ![c] = "ok"]
  /\ total' = total + 1
  /\ task' = StartNext([task EXCEPT ![c] = Call("pause")])
  /\ queue' = IF queue # << >> THEN Tail(queue) ELSE queue
  /\ UNCHANGED <<hvars, pc, cur, sheet, mi, msleep, dateFolder, pres, destroyOps,
                 reported, activeCount, uploaded, uploads, dateFolderId, uploadedTo, env, remote>>

\* deletePageElement returned: log OK, total++, then the 600 ms pause
DeleteElementOk(c) ==
  /\ pc = "batch"
  /\ task[c].st = "deleteElement" /\ ~task[c].slp
  /\ slide' = slide \ {c}
  /\ outcome' = [outcome EXCEPT ![c] = "ok"]
  /\ total' = total + 1
  /\ task' = [task EXCEPT ![c] = Call("pause")]
  /\ UNCHANGED <<hvars, pc, cur, sheet, mi, msleep, dateFolder, pres, destroyOps,
                 reported, queue, activeCount, uploaded, uploads,
                 dateFolderId, uploadedTo, env, remote>>

\* the pause ends and the callback returns
PauseDone(c) ==
  /\ pc = "batch"
  /\ task[c].st = "pause"
  /\ TaskEnd([task EXCEPT ![c] = Finished])
  /\ UNCHANGED <<hvars, cur, sheet, msleep, dateFolder, pres, total, reported,
                 slide, outcome, uploaded, uploads, dateFolderId, uploadedTo, env, remote>>

\* ------------------------------------------------------------------ main()
\* the awaits of main() that are wrapped in withRetry; mi is the i of the
\* withRetry in progress and is 1 outside any (the local is dead there)
MainRetrySteps == {"sheetsGet", "folderList", "folderCreate", "copy", "slidesGet", "destroy"}

NoTasks == [c \in Charts |-> Idle]
NoOutcome == [c \in Charts |-> "none"]

\* main().catch(...): process.exit(1)
Crash ==
  /\ pc' = "crashed"
  /\ mi' = 1
  /\ UNCHANGED <<hvars, cur, sheet, msleep, dateFolder, destroyOps, total,
                 reported, task, queue, activeCount, slide, outcome, uploaded, uploads,
                 dateFolderId, uploadedTo, env, remote>>

\* 'continue' or the end of the loop body: on to the next entry of TIENDAS;
\* the per-store locals of the iteration are gone
Continue ==
  /\ pc' = "loop"
  /\ cur' = cur + 1
  /\ task' = NoTasks
  /\ outcome' = NoOutcome
  /\ slide' = {}
  /\ uploaded' = {}
  /\ mi' = 1
  /\ dateFolderId' = 0
  /\ UNCHANGED <<hvars, sheet, msleep, destroyOps, total, reported,
                 queue, activeCount, uploads, uploadedTo, env, remote>>

\* the values the module needs from process.env
Required == {"SPREADSHEET_ID", "GOOGLE_OAUTH_CLIENT_ID", "GOOGLE_OAUTH_CLIENT_SECRET",
             "GOOGLE_OAUTH_REFRESH_TOKEN"}

\* as ModuleStartup, but only SPREADSHEET_ID is looked at
ModuleStartup_OnlySpreadsheetId ==
  /\ pc = "startup"
  /\ pc' = IF "SPREADSHEET_ID" \in env THEN "getToken" ELSE "crashed"
  /\ UNCHANGED <<hvars, cur, sheet, mi, msleep, dateFolder, pres, destroyOps, total,
                 reported, task, queue, activeCount, slide, outcome, uploaded, uploads,
                 dateFolderId, uploadedTo, env, remote>>

\* lines 7-17: process.exit(1) if a value is missing; else line 316 calls main()
ModuleStartup ==
  /\ pc = "startup"
  /\ pc' = IF Required \subseteq env THEN "getToken" ELSE "crashed"
  /\ UNCHANGED <<hvars, cur, sheet, mi, msleep, dateFolder, pres, destroyOps, total,
                 reported, task, queue, activeCount, slide, outcome, uploaded, uploads,
                 dateFolderId, uploadedTo, env, remote>>

\* lines 264-265: no token (or getAccessToken throws) ends the run with exit(1)
GetAccessToken ==
  /\ pc = "getToken"
  /\ \E token \in BOOLEAN :
       /\ pc' = IF token THEN "sheetsGet" ELSE "crashed"
       /\ remote' = token
  /\ UNCHANGED <<hvars, cur, sheet, mi, msleep, dateFolder, pres, destroyOps, total,
                 reported, task, queue, activeCount, slide, outcome, uploaded, uploads,
                 dateFolderId, uploadedTo, env>>

\* an attempt of the withRetry main() is inside fails and attempts remain
MainAttemptFail ==
  /\ pc \in MainRetrySteps /\ ~msleep
  /\ ~LastAttempt(mi)
  /\ msleep' = TRUE
  /\ UNCHANGED <<hvars, pc, cur, sheet, mi, dateFolder, pres, destroyOps, total,
                 reported, task, queue, activeCount, slide, outcome, uploaded, uploads,
                 dateFolderId, uploadedTo, env, remote>>

MainSleepDone ==
  /\ msleep
  /\ msleep' = FALSE
  /\ mi' = mi + 1
  /\ UNCHANGED <<hvars, pc, cur, sheet, dateFolder, pres, destroyOps, total,
                 reported, task, queue, activeCount, slide, outcome, uploaded, uploads,
                 dateFolderId, uploadedTo, env, remote>>

MainExhausted(step) == pc = step /\ ~msleep /\ LastAttempt(mi)

\* getSheetsAndCharts returned the map byTitle
GetSheetsAndChartsOk ==
  /\ pc = "sheetsGet" /\ ~msleep
  /\ pc' = "loop"
  /\ mi' = 1
  /\ UNCHANGED <<hvars, cur, sheet, msleep, dateFolder, pres, destroyOps, total,
                 reported, task, queue, activeCount, slide, outcome, uploaded, uploads,
                 dateFolderId, uploadedTo, env, remote>>

\* getSheetsAndCharts threw: nothing in main catches it
GetSheetsAndChartsThrows ==
  /\ MainExhausted("sheetsGet")
  /\ Crash
  /\ UNCHANGED pres

\* as StoreSkipped, but the missing sheet is thrown as an error
StoreSkipped_Throws ==
  /\ pc = "loop" /\ cur <= NumStores
  /\ sheet[cur] = 0
  /\ Crash
  /\ UNCHANGED pres

\* lines 272-275: sheet not in byTitle (getSheetsAndCharts keeps only sheets with charts)
StoreSkipped ==
  /\ pc = "loop" /\ cur <= NumStores
  /\ sheet[cur] = 0
  /\ Continue
  /\ UNCHANGED <<dateFolder, pres>>

\* line 278: ensureDatedSubfolder issues the folder lookup
StoreBegin ==
  /\ pc = "loop" /\ cur <= NumStores
  /\ sheet[cur] > 0
  /\ pc' = "folderList"
  /\ mi' = 1
  /\ UNCHANGED <<hvars, cur, sheet, msleep, dateFolder, pres, destroyOps, total,
                 reported, task, queue, activeCount, slide, outcome, uploaded, uploads,
                 dateFolderId, uploadedTo, env, remote>>

\* line 313: the loop is over, the total is printed
ReportTotal ==
  /\ pc = "loop" /\ cur > NumStores
  /\ pc' = "done"
  /\ reported' = total
  /\ UNCHANGED <<hvars, cur, sheet, mi, msleep, dateFolder, pres, destroyOps, total,
                 task, queue, activeCount, slide, outcome, uploaded, uploads,
                 dateFolderId, uploadedTo, env, remote>>

\* as DatedFolderListOk, but q lacks "'${parentId}' in parents"
DatedFolderListOk_AnyParent ==
  /\ pc = "folderList" /\ ~msleep
  /\ \E found \in BOOLEAN :
       IF found
         THEN /\ dateFolder' = [dateFolder EXCEPT ![cur] = "resolved"]
              /\ \E s \in Stores : dateFolderId' = s
              /\ pc' = "copy"
         ELSE /\ pc' = "folderCreate"
              /\ UNCHANGED <<dateFolder, dateFolderId>>
  /\ mi' = 1
  /\ UNCHANGED <<hvars, cur, sheet, msleep, pres, destroyOps, total,
                 reported, task, queue, activeCount, slide, outcome, uploaded, uploads,
                 uploadedTo, env, remote>>

\* ensureDatedSubfolder: the lookup answered; found, or the create is issued
DatedFolderListOk ==
  /\ pc = "folderList" /\ ~msleep
  /\ \E found \in BOOLEAN :
       IF found
         THEN /\ dateFolder' = [dateFolder EXCEPT ![cur] = "resolved"]
              /\ dateFolderId' = cur
              /\ pc' = "copy"
         ELSE /\ pc' = "folderCreate"
              /\ UNCHANGED <<dateFolder, dateFolderId>>
  /\ mi' = 1
  /\ UNCHANGED <<hvars, cur, sheet, msleep, pres, destroyOps, total,
                 reported, task, queue, activeCount, slide, outcome, uploaded, uploads,
                 uploadedTo, env, remote>>

\* ensureDatedSubfolder: the create answered; createTempPresentation issues the copy
DatedFolderCreateOk ==
  /\ pc = "folderCreate" /\ ~msleep
  /\ dateFolder' = [dateFolder EXCEPT ![cur] = "resolved"]
  /\ dateFolderId' = cur
  /\ pc' = "copy"
  /\ mi' = 1
  /\ UNCHANGED <<hvars, cur, sheet, msleep, pres, destroyOps, total,
                 reported, task, queue, activeCount, slide, outcome, uploaded, uploads,
                 uploadedTo, env, remote>>

\* as EnsureDatedSubfolderThrows, but the catch lacks its 'continue'
EnsureDatedSubfolderThrows_NoContinue ==
  /\ MainExhausted("folderList") \/ MainExhausted("folderCreate")
  /\ dateFolder' = [dateFolder EXCEPT ![cur] = "failed"]
  /\ pc' = "copy"
  /\ mi' = 1
  /\ UNCHANGED <<hvars, cur, sheet, msleep, pres, destroyOps, total,
                 reported, task, queue, activeCount, slide, outcome, uploaded, uploads,
                 dateFolderId, uploadedTo, env, remote>>

\* line 279: ensureDatedSubfolder threw; the store is skipped
EnsureDatedSubfolderThrows ==
  /\ MainExhausted("folderList") \/ MainExhausted("folderCreate")
  /\ dateFolder' = [dateFolder EXCEPT ![cur] = "failed"]
  /\ Continue
  /\ UNCHANGED pres

\* as CopyOk, but the charts are submitted before the presentation was read
CopyOk_SubmitsCharts ==
  /\ pc = "copy" /\ ~msleep
  /\ pres' = [pres EXCEPT ![cur] = "created"]
  /\ pc' = "batch"
  /\ task' = SubmitBatch(sheet[cur])
  /\ queue' = SubmitQueue(sheet[cur])
  /\ activeCount' = Min(sheet[cur], CONCURRENCY)
  /\ mi' = 1
  /\ UNCHANGED <<hvars, cur, sheet, msleep, dateFolder, destroyOps, total,
                 reported, slide, outcome, uploaded, uploads,
                 dateFolderId, uploadedTo, env, remote>>

\* createTempPresentation: the template copy exists, slides.get is issued
CopyOk ==
  /\ pc = "copy" /\ ~msleep
  /\ pres' = [pres EXCEPT ![cur] = "created"]
  /\ pc' = "slidesGet"
  /\ mi' = 1
  /\ UNCHANGED <<hvars, cur, sheet, msleep, dateFolder, destroyOps, total,
                 reported, task, queue, activeCount, slide, outcome, uploaded, uploads,
                 dateFolderId, uploadedTo, env, remote>>

\* createTempPresentation returned; line 285 submits every chart to limit()
CreateTempPresentationOk ==
  /\ pc = "slidesGet" /\ ~msleep
  /\ pres' = [pres EXCEPT ![cur] = "open"]
  /\ pc' = "batch"
  /\ task' = SubmitBatch(sheet[cur])
  /\ queue' = SubmitQueue(sheet[cur])
  /\ activeCount' = Min(sheet[cur], CONCURRENCY)
  /\ mi' = 1
  /\ UNCHANGED <<hvars, cur, sheet, msleep, dateFolder, destroyOps, total,
                 reported, slide, outcome, uploaded, uploads,
                 dateFolderId, uploadedTo, env, remote>>

\* line 283: createTempPresentation threw (copy or slides.get out of
\* attempts, or line 127: the copy has no first slide); nothing catches it
CreateTempPresentationThrows ==
  /\ \/ MainExhausted("copy")
     \/ MainExhausted("slidesGet")
     \/ pc = "slidesGet" /\ ~msleep
  /\ pres' = [pres EXCEPT ![cur] = IF pc = "copy" THEN "copyFailed" ELSE "openFailed"]
  /\ Crash

\* lines 304-307: the delete of the presentation answered
DestroyOk ==
  /\ pc = "destroy" /\ ~msleep
  /\ pres' = [pres EXCEPT ![cur] = "deleted"]
  /\ Continue
  /\ UNCHANGED dateFolder

\* as DestroyThrows, but the error leaves main()
DestroyThrows_Fatal ==
  /\ MainExhausted("destroy")
  /\ Crash
  /\ UNCHANGED pres

\* lines 308-310: the delete failed for good; a warning, nothing else
DestroyThrows ==
  /\ MainExhausted("destroy")
  /\ Continue
  /\ UNCHANGED <<dateFolder, pres>>

\* ------------------------------------------------------------ specification
\* the state main() starts in, for a spreadsheet with the given charts
MainInit(sheets) ==
  /\ pc = "startup"
  /\ dateFolderId = 0
  /\ uploadedTo = {}
  /\ remote = FALSE
  /\ cur = 1
  /\ sheet \in sheets
  /\ mi = 1
  /\ msleep = FALSE
  /\ dateFolder = [s \in Stores |-> "unresolved"]
  /\ pres = [s \in Stores |-> "none"]
  /\ destroyOps = [s \in Stores |-> 0]
  /\ total = 0
  /\ reported = -1
  /\ task = NoTasks
  /\ queue = << >>
  /\ activeCount = 0
  /\ slide = {}
  /\ outcome = NoOutcome
  /\ uploaded = {}
  /\ uploads = [s \in Stores |-> 0]

\* no withRetry harness runs
RetryOff ==
  /\ rsrc = "none" /\ rtag = "" /\ rpc = "off" /\ ri = 0 /\ rwait = 0 /\ rcalls = 0
  /\ rerrs = << >> /\ rwaits = << >> /\ rslept = 0 /\ rlogs = << >> /\ rthrown = << >>
  /\ rresolved = "none" /\ rret = "none"

\* no ensureDatedSubfolder harness runs
FolderOff ==
  /\ drive = << >> /\ drive0 = 0 /\ fargs = << >> /\ fcall = 0 /\ fpc = "off" /\ fi = 0
  /\ fret = << >> /\ flists = << >> /\ fcreates = << >> /\ fkept = TRUE

\* no transform is computed
NoFraction == [num |-> 0, den |-> 1]
FitOff ==
  /\ tpc = "off"
  /\ tin = [w |-> 0, h |-> 0, pgW |-> 0, pgH |-> 0, margin |-> 0]
  /\ tout = [scaleX |-> NoFraction, scaleY |-> NoFraction,
             translateX |-> NoFraction, translateY |-> NoFraction]

\* no file name is composed
NameOff ==
  /\ npc = "off"
  /\ nin = [tienda |-> << >>, ctitle |-> << >>, idx |-> 0, date |-> << >>]
  /\ nout = [title |-> << >>, fileName |-> << >>]

\* no element harness runs
ElemOff ==
  /\ enow = 0 /\ echarts = << >> /\ epage = {} /\ ereqs = {}
  /\ etask = [c \in Charts |-> [st |-> "idle", i |-> 0, id |-> << >>]]

\* crearGraficosParaTodas is not run
SheetsOff ==
  /\ ssheets = << >> /\ gpc = "off" /\ gruns = 0 /\ hojas = << >> /\ hidx = 0
  /\ calcId = 0 /\ reqs = << >> /\ gcalls = {}

Init ==
  /\ MainInit({f \in [Stores -> 0..MaxCharts] : SumTo(f, NumStores) <= MaxTotalCharts})
  /\ env \in SUBSET Required
  /\ RetryOff
  /\ FolderOff
  /\ FitOff
  /\ NameOff
  /\ ElemOff
  /\ SheetsOff

Next ==
  \/ ModuleStartup
  \/ GetAccessToken
  \/ MainAttemptFail
  \/ MainSleepDone
  \/ GetSheetsAndChartsOk
  \/ GetSheetsAndChartsThrows
  \/ StoreSkipped
  \/ StoreBegin
  \/ ReportTotal
  \/ DatedFolderListOk
  \/ DatedFolderCreateOk
  \/ EnsureDatedSubfolderThrows
  \/ CopyOk
  \/ CreateTempPresentationOk
  \/ CreateTempPresentationThrows
  \/ DestroyOk
  \/ DestroyThrows
  \/ \E c \in Charts : TaskAttemptFail(c)
  \/ \E c \in Charts : TaskSleepDone(c)
  \/ \E c \in Charts : TaskRetryExhausted(c)
  \/ \E c \in Charts : CreateChartOk(c)
  \/ \E c \in Charts : GetAfterInsertOk(c)
  \/ \E c \in Charts : FitOk(c)
  \/ \E c \in Charts : ExportOk(c)
  \/ \E c \in Charts : ReadStreamEnd(c)
  \/ \E c \in Charts : ReadStreamError(c)
  \/ \E c \in Charts : UploadOk(c)
  \/ \E c \in Charts : DeleteElementOk(c)
  \/ \E c \in Charts : PauseDone(c)

Spec == Init /\ [][Next]_vars

\* every remote call, sleep and timer eventually returns and the event loop
\* runs what is ready: some enabled step is eventually taken
SpecLive == Init /\ [][Next]_vars /\ WF_vars(Next)

TypeOK ==
  /\ pc \in {"startup", "getToken", "loop", "batch", "done", "crashed"} \cup MainRetrySteps
  /\ cur \in 1..(NumStores + 1)
  /\ mi \in 1..MAX_RETRIES
  /\ total \in 0..MaxTotalCharts
  /\ activeCount \in 0..CONCURRENCY
  /\ \A c \in Charts : task[c].st \in {"idle", "queued", "finished"} \cup TaskSteps

\* --------------------- main() of the one-page-per-chart pipeline (part_001)
\* the awaits of its chart task that are wrapped in withRetry
PageTaskRetrySteps == {"createSlide", "createChart", "getAfterInsert", "fit"}

\* charts.map(limit): as SubmitBatch, the callback begins with createNewSlide
SubmitPages(n) ==
  [c \in Charts |-> IF c > n THEN Idle
                    ELSE IF c <= CONCURRENCY THEN Call("createSlide")
                    ELSE Queued]

StartNextPage(t) ==
  IF queue # << >> THEN [t EXCEPT ![Head(queue)] = Call("createSlide")] ELSE t

\* a limit() callback settles; when it was the last one Promise.all resolves
\* and the loop body is at its end (part_001 line 265)
PageTaskEnd(t) ==
  /\ task' = StartNextPage(t)
  /\ queue' = IF queue # << >> THEN Tail(queue) ELSE queue
  /\ activeCount' = IF queue # << >> THEN activeCount ELSE activeCount - 1
  /\ pc' = IF AllFinished(StartNextPage(t)) THEN "batchEnd" ELSE pc

\* catch (e) of the callback, part_001 lines 262-264
PageTaskCatch(c) ==
  /\ outcome' = [outcome EXCEPT ![c] = "fail"]
  /\ PageTaskEnd([task EXCEPT ![c] = Finished])
  /\ UNCHANGED <<hvars, cur, sheet, mi, msleep, dateFolder, pres, destroyOps, total, reported,
                 slide, uploaded, uploads, dateFolderId, uploadedTo, env, remote>>

\* an attempt of createNewSlide's withRetry fails and attempts remain
PageTaskAttemptFail(c) ==
  /\ pc = "batch"
  /\ task[c].st = "createSlide" /\ ~task[c].slp
  /\ ~LastAttempt(task[c].i)
  /\ task' = [task EXCEPT ![c].slp = TRUE]
  /\ UNCHANGED <<hvars, pc, cur, sheet, mi, msleep, dateFolder, pres, destroyOps, total,
                 reported, queue, activeCount, slide, outcome, uploaded, uploads,
                 dateFolderId, uploadedTo, env, remote>>

PageTaskRetryExhausted(c) ==
  /\ pc = "batch"
  /\ task[c].st \in PageTaskRetrySteps /\ ~task[c].slp
  /\ LastAttempt(task[c].i)
  /\ PageTaskCatch(c)

\* createNewSlide returned: the chart has its own slide, insertChartAndFit begins
CreateNewSlideOk(c) ==
  /\ pc = "batch"
  /\ task[c].st = "createSlide" /\ ~task[c].slp
  /\ TaskGoto(c, "createChart")
  /\ UNCHANGED <<slide, uploaded, uploads, dateFolderId, uploadedTo, env, remote>>

\* insertChartAndFit returned: log OK, total++, then the 200 ms pause
PageFitOk(c) ==
  /\ pc = "batch"
  /\ task[c].st = "fit" /\ ~task[c].slp
  /\ outcome' = [outcome EXCEPT ![c] = "ok"]
  /\ total' = total + 1
  /\ task' = [task EXCEPT ![c] = Call("pause")]
  /\ UNCHANGED <<hvars, pc, cur, sheet, mi, msleep, dateFolder, pres, destroyOps,
                 reported, queue, activeCount, slide, uploaded, uploads,
                 dateFolderId, uploadedTo, env, remote>>

PagePauseDone(c) ==
  /\ pc = "batch"
  /\ task[c].st = "pause"
  /\ PageTaskEnd([task EXCEPT ![c] = Finished])
  /\ UNCHANGED <<hvars, cur, sheet, mi, msleep, dateFolder, pres, destroyOps, total, reported,
                 slide, outcome, uploaded, uploads, dateFolderId, uploadedTo, env, remote>>

\* createTempPresentation returns { presId, pgW, pgH }; the callbacks are submitted
PageOpen ==
  /\ pres' = [pres EXCEPT ![cur] = "open"]
  /\ pc' = "batch"
  /\ task' = SubmitPages(sheet[cur])
  /\ queue' = SubmitQueue(sheet[cur])
  /\ activeCount' = Min(sheet[cur], CONCURRENCY)
  /\ mi' = 1
  /\ UNCHANGED <<hvars, cur, sheet, msleep, dateFolder, destroyOps, total,
                 reported, slide, outcome, uploaded, uploads,
                 dateFolderId, uploadedTo, env, remote>>

\* createTempPresentation: slides.get answered; the first slide of the
\* template, if there is one, is deleted
PageSlidesGetOk ==
  /\ pc = "slidesGet" /\ ~msleep
  /\ \E firstSlideId \in BOOLEAN :
       IF firstSlideId
         THEN /\ pc' = "deleteFirstSlide"
              /\ mi' = 1
              /\ UNCHANGED <<hvars, cur, sheet, msleep, dateFolder, pres, destroyOps, total,
                             reported, task, queue, activeCount, slide, outcome, uploaded,
                             uploads, dateFolderId, uploadedTo, env, remote>>
         ELSE PageOpen

DeleteFirstSlideOk ==
  /\ pc = "deleteFirstSlide" /\ ~msleep
  /\ PageOpen

\* an attempt of the deleteFirstSlide withRetry fails and attempts remain
DeleteFirstSlideAttemptFail ==
  /\ pc = "deleteFirstSlide" /\ ~msleep
  /\ ~LastAttempt(mi)
  /\ msleep' = TRUE
  /\ UNCHANGED <<hvars, pc, cur, sheet, mi, dateFolder, pres, destroyOps, total,
                 reported, task, queue, activeCount, slide, outcome, uploaded, uploads,
                 dateFolderId, uploadedTo, env, remote>>

\* part_001 line 250: createTempPresentation threw; nothing catches it
PageCreateTempPresentationThrows ==
  /\ \/ MainExhausted("copy")
     \/ MainExhausted("slidesGet")
     \/ MainExhausted("deleteFirstSlide")
  /\ pres' = [pres EXCEPT ![cur] = IF pc = "copy" THEN "copyFailed" ELSE "openFailed"]
  /\ Crash

\* part_001 line 266: after Promise.all the loop body ends
BatchEnd ==
  /\ pc = "batchEnd"
  /\ Continue
  /\ UNCHANGED <<dateFolder, pres>>

InitPerChart ==
  /\ MainInit({f \in [Stores -> 0..MaxCharts] : SumTo(f, NumStores) <= MaxTotalCharts})
  /\ env = Required
  /\ RetryOff
  /\ FolderOff
  /\ FitOff
  /\ NameOff
  /\ ElemOff
  /\ SheetsOff

NextPerChart ==
  \/ ModuleStartup
  \/ GetAccessToken
  \/ MainAttemptFail
  \/ DeleteFirstSlideAttemptFail
  \/ MainSleepDone
  \/ GetSheetsAndChartsOk
  \/ GetSheetsAndChartsThrows
  \/ StoreSkipped
  \/ StoreBegin
  \/ ReportTotal
  \/ DatedFolderListOk
  \/ DatedFolderCreateOk
  \/ EnsureDatedSubfolderThrows
  \/ CopyOk
  \/ PageSlidesGetOk
  \/ DeleteFirstSlideOk
  \/ PageCreateTempPresentationThrows
  \/ BatchEnd
  \/ \E c \in Charts : TaskAttemptFail(c)
  \/ \E c \in Charts : PageTaskAttemptFail(c)
  \/ \E c \in Charts : TaskSleepDone(c)
  \/ \E c \in Charts : PageTaskRetryExhausted(c)
  \/ \E c \in Charts : CreateNewSlideOk(c)
  \/ \E c \in Charts : CreateChartOk(c)
  \/ \E c \in Charts : GetAfterInsertOk(c)
  \/ \E c \in Charts : PageFitOk(c)
  \/ \E c \in Charts : PagePauseDone(c)

SpecPerChart == InitPerChart /\ [][NextPerChart]_vars

\* ------------------------------------------------------- withRetry(tag, fn)
\* the copies of withRetry in the repository
Sources == {"graficos.js", "part_002", "part_001:48", "part_001:326", "part_001:622"}
Tags == {"sheets.get", "drive.export(pdf)"}

\* what fn can throw: an Error of a transient or of a permanent kind, or a
\* value that has no message
Errors ==
  { [kind |-> "transient", message |-> "Rate Limit Exceeded", str |-> "Error: Rate Limit Exceeded"],
    [kind |-> "permanent", message |-> "File not found", str |-> "Error: File not found"],
    [kind |-> "value", message |-> "", str |-> "ETIMEDOUT"] }

\* e?.message || e
ErrText(e) == IF e.message # "" THEN e.message ELSE e.str

\* let wait = ...
InitialWait(src) == IF src = "part_001:622" THEN WAIT_START_PNG ELSE WAIT_START

\* as NextWait, but the wait is left as it is
NextWait_NoDoubling(wait) == Min(wait, WAIT_CAP)

\* wait = Math.min(wait * 2, 8000)
NextWait(wait) == Min(wait * 2, WAIT_CAP)

\* Math.floor(Math.random() * 300)
Jitter == 0..(JITTER_MS - 1)

\* as ThrownMessage, but the error of the first attempt is kept
ThrownMessage_FirstError(src, tag, errs) ==
  <<tag,
    IF src = "part_001:622" THEN ": agotados 5 intentos -> " ELSE ": ",
    ErrText(errs[1])>>

\* new Error(`${tag}: ${e?.message || e}`), e the error just caught
ThrownMessage(src, tag, errs) ==
  <<tag,
    IF src = "part_001:622" THEN ": agotados 5 intentos -> " ELSE ": ",
    ErrText(errs[Len(errs)])>>

\* what fn can resolve with
Values == {"v1", "v2"}

\* as RetryFnOk, but the value of fn is dropped
RetryFnOk_DropsValue ==
  /\ rpc = "call"
  /\ \E v \in Values : rresolved' = v
  /\ rret' = "undefined"
  /\ rpc' = "returned"
  /\ UNCHANGED <<pvars, ovars, rsrc, rtag, ri, rwait, rcalls, rerrs, rwaits, rslept, rlogs, rthrown>>

\* return await fn()
RetryFnOk ==
  /\ rpc = "call"
  /\ \E v \in Values : rresolved' = v /\ rret' = v
  /\ rpc' = "returned"
  /\ UNCHANGED <<pvars, ovars, rsrc, rtag, ri, rwait, rcalls, rerrs, rwaits, rslept, rlogs, rthrown>>

\* as RetryRaise, but the diagnostic is printed before the test of i
RetryRaise_LogsFirst ==
  /\ rpc = "call"
  /\ LastAttempt(ri)
  /\ \E e \in Errors :
       /\ rerrs' = Append(rerrs, e)
       /\ rthrown' = ThrownMessage(rsrc, rtag, Append(rerrs, e))
  /\ rlogs' = Append(rlogs, <<ri, rwait>>)
  /\ rpc' = "raised"
  /\ UNCHANGED <<pvars, ovars, rsrc, rtag, ri, rwait, rcalls, rwaits, rslept, rresolved, rret>>

\* fn threw on the last attempt: withRetry throws
RetryRaise ==
  /\ rpc = "call"
  /\ LastAttempt(ri)
  /\ \E e \in Errors :
       /\ rerrs' = Append(rerrs, e)
       /\ rthrown' = ThrownMessage(rsrc, rtag, Append(rerrs, e))
  /\ rpc' = "raised"
  /\ UNCHANGED <<pvars, ovars, rsrc, rtag, ri, rwait, rcalls, rwaits, rslept, rlogs, rresolved, rret>>

\* fn threw and attempts remain: the diagnostic, then sleep(wait + jitter)
RetryBackoff ==
  /\ rpc = "call"
  /\ ~LastAttempt(ri)
  /\ \E e \in Errors : rerrs' = Append(rerrs, e)
  /\ rlogs' = Append(rlogs, <<ri, rwait>>)
  /\ \E j \in Jitter : rslept' = rwait + j
  /\ rwaits' = Append(rwaits, rwait)
  /\ rpc' = "sleep"
  /\ UNCHANGED <<pvars, ovars, rsrc, rtag, ri, rwait, rcalls, rthrown, rresolved, rret>>

\* the sleep is over: wait is doubled, i++, fn is invoked again
RetrySleepDone ==
  /\ rpc = "sleep"
  /\ rwait' = NextWait(rwait)
  /\ ri' = ri + 1
  /\ rcalls' = rcalls + 1
  /\ rslept' = 0
  /\ rpc' = "call"
  /\ UNCHANGED <<pvars, ovars, rsrc, rtag, rerrs, rwaits, rlogs, rthrown, rresolved, rret>>

InitRetry ==
  /\ MainInit({[s \in Stores |-> 0]})
  /\ env = Required
  /\ rsrc \in Sources
  /\ rtag \in Tags
  /\ rpc = "call" /\ ri = 1 /\ rwait = InitialWait(rsrc) /\ rcalls = 1
  /\ rerrs = << >> /\ rwaits = << >> /\ rslept = 0 /\ rlogs = << >> /\ rthrown = << >>
  /\ rresolved = "none" /\ rret = "none"
  /\ FolderOff
  /\ FitOff
  /\ NameOff
  /\ ElemOff
  /\ SheetsOff

NextRetry ==
  \/ RetryFnOk
  \/ RetryRaise
  \/ RetryBackoff
  \/ RetrySleepDone

SpecRetry == InitRetry /\ [][NextRetry]_vars

\* ------------------------------------ ensureDatedSubfolder(parentId, dateStr)
MaxFolders == 2
Parents == {"pA", "pB"}
Dates == {"2025-01-01", "2025-01-02"}

RECURSIVE SeqsUpTo(_, _)
SeqsUpTo(S, n) ==
  IF n = 0 THEN {<< >>}
  ELSE SeqsUpTo(S, n - 1) \cup {Append(q, x) : q \in {r \in SeqsUpTo(S, n - 1) : Len(r) = n - 1}, x \in S}

\* the folders a Drive can hold when the run starts
Folders == [name : Dates, parent : Parents, trashed : BOOLEAN]

\* q: name='${dateStr}' and mimeType=folder and '${parentId}' in parents and trashed=false
FolderMatches(f, parentId, dateStr) ==
  f.name = dateStr /\ f.parent = parentId /\ ~f.trashed

\* found.data.files of files.list({ q, pageSize: 1 }): the ids of the matches
FilesFound(d, parentId, dateStr) ==
  {k \in 1..Len(d) : FolderMatches(d[k], parentId, dateStr)}

\* found.data.files[0].id
FirstFound(d, parentId, dateStr) ==
  CHOOSE k \in FilesFound(d, parentId, dateStr) :
    \A j \in FilesFound(d, parentId, dateStr) : k <= j

\* as NewFolder, but the folder is created without parents (in the root)
NewFolder_InRoot(parentId, dateStr) ==
  [name |-> dateStr, parent |-> "root", trashed |-> FALSE]

\* requestBody: { name: dateStr, mimeType: folder, parents: [parentId] }
NewFolder(parentId, dateStr) ==
  [name |-> dateStr, parent |-> parentId, trashed |-> FALSE]

parentId == fargs[fcall][1]
dateStr == fargs[fcall][2]

\* the call ends, returning id (0: it threw)
FolderCallEnds(id) ==
  /\ fret' = Append(fret, id)
  /\ fpc' = "idle"
  /\ fi' = 1

\* ensureDatedSubfolder is called: withRetry('drive.list datedFolder') is entered
FolderCall ==
  /\ fpc = "idle" /\ fcall < Len(fargs)
  /\ fcall' = fcall + 1
  /\ fpc' = "list" /\ fi' = 1
  /\ flists' = Append(flists, 1)
  /\ fcreates' = Append(fcreates, 0)
  /\ UNCHANGED <<pvars, rvars, tvars, nvars, evars, gvars, drive, drive0, fargs, fret, fkept>>

\* a files.list request fails: retried, or thrown on the last attempt
FolderListFail ==
  /\ fpc = "list"
  /\ IF LastAttempt(fi)
       THEN FolderCallEnds(0)
       ELSE fi' = fi + 1 /\ UNCHANGED <<fpc, fret>>
  /\ UNCHANGED <<pvars, rvars, tvars, nvars, evars, gvars, drive, drive0, fargs, fcall, flists, fcreates, fkept>>

\* if (found.data.files?.length) return found.data.files[0].id
FolderListFound ==
  /\ fpc = "list"
  /\ FilesFound(drive, parentId, dateStr) # {}
  /\ FolderCallEnds(FirstFound(drive, parentId, dateStr))
  /\ UNCHANGED <<pvars, rvars, tvars, nvars, evars, gvars, drive, drive0, fargs, fcall, flists, fcreates, fkept>>

\* nothing found: withRetry('drive.create datedFolder') is entered
FolderListEmpty ==
  /\ fpc = "list"
  /\ FilesFound(drive, parentId, dateStr) = {}
  /\ fpc' = "create" /\ fi' = 1
  /\ fcreates' = [fcreates EXCEPT ![fcall] = @ + 1]
  /\ UNCHANGED <<pvars, rvars, tvars, nvars, evars, gvars, drive, drive0, fargs, fcall, fret, flists, fkept>>

\* a files.create request is refused: retried, or thrown on the last attempt
FolderCreateFail ==
  /\ fpc = "create"
  /\ IF LastAttempt(fi)
       THEN FolderCallEnds(0)
       ELSE fi' = fi + 1 /\ UNCHANGED <<fpc, fret>>
  /\ UNCHANGED <<pvars, rvars, tvars, nvars, evars, gvars, drive, drive0, fargs, fcall, flists, fcreates, fkept>>

\* return folder.data.id
FolderCreateOk ==
  /\ fpc = "create"
  /\ drive' = Append(drive, NewFolder(parentId, dateStr))
  /\ FolderCallEnds(Len(drive) + 1)
  /\ UNCHANGED <<pvars, rvars, tvars, nvars, evars, gvars, drive0, fargs, fcall, flists, fcreates, fkept>>

\* between the two calls somebody else moves a folder to the trash
DriveTrashes ==
  /\ fpc = "idle" /\ fcall = 1 /\ fkept
  /\ \E k \in 1..Len(drive) :
       /\ ~drive[k].trashed
       /\ drive' = [drive EXCEPT ![k].trashed = TRUE]
  /\ fkept' = FALSE
  /\ UNCHANGED <<pvars, rvars, tvars, nvars, evars, gvars, drive0, fargs, fcall, fpc, fi, fret, flists, fcreates>>

InitFolder ==
  /\ MainInit({[s \in Stores |-> 0]})
  /\ env = Required
  /\ RetryOff
  /\ drive \in SeqsUpTo(Folders, MaxFolders)
  /\ drive0 = Len(drive)
  /\ fargs \in [1..2 -> Parents \X Dates]
  /\ fcall = 0 /\ fpc = "idle" /\ fi = 1
  /\ fret = << >> /\ flists = << >> /\ fcreates = << >> /\ fkept = TRUE
  /\ FitOff
  /\ NameOff
  /\ ElemOff
  /\ SheetsOff

NextFolder ==
  \/ FolderCall
  \/ FolderListFail
  \/ FolderListFound
  \/ FolderListEmpty
  \/ FolderCreateFail
  \/ FolderCreateOk
  \/ DriveTrashes

SpecFolder == InitFolder /\ [][NextFolder]_vars

\* ------------------------------------- insertChartAndFit: the fit transform
MaxSide == 6
MaxMargin == 2
MARGIN_PT == 0
FALLBACK_SIZE == 100

\* a / b, exactly
Quotient(a, b) == [num |-> a, den |-> b]
\* k * f
Times(k, f) == [num |-> k * f.num, den |-> f.den]
\* k - f
Minus(k, f) == [num |-> k * f.den - f.num, den |-> f.den]
\* f / 2
Half(f) == [num |-> f.num, den |-> 2 * f.den]
\* f = k
Equals(f, k) == f.num = k * f.den
\* f = g
SameFraction(f, g) == f.num * g.den = g.num * f.den

\* elem?.size?.width?.magnitude || 100
OrFallback(magnitude) == IF magnitude = 0 THEN FALLBACK_SIZE ELSE magnitude

elemW == OrFallback(tin.w)
elemH == OrFallback(tin.h)
targetW == tin.pgW - 2 * tin.margin
targetH == tin.pgH - 2 * tin.margin

\* as ScaleFor, but relative to the page instead of the element
ScaleFor_OfPage(target, elem, pg) == Quotient(target, pg)

\* scaleX = targetW / elemW
ScaleFor(target, elem, pg) == Quotient(target, elem)

\* translateX = (pgW - elemW * scaleX) / 2
TranslateFor(pg, elem, scale) == Half(Minus(pg, Times(elem, scale)))

\* lines 178-188: the transform of the fit batchUpdate
FitTransform ==
  /\ tpc = "measured"
  /\ tout' = [scaleX |-> ScaleFor(targetW, elemW, tin.pgW),
              scaleY |-> ScaleFor(targetH, elemH, tin.pgH),
              translateX |-> TranslateFor(tin.pgW, elemW, ScaleFor(targetW, elemW, tin.pgW)),
              translateY |-> TranslateFor(tin.pgH, elemH, ScaleFor(targetH, elemH, tin.pgH))]
  /\ tpc' = "done"
  /\ UNCHANGED <<pvars, rvars, fvars, nvars, evars, gvars, tin>>

\* the margin is MARGIN_PT in graficos.js; larger ones are the claim's
Margins == MARGIN_PT..MaxMargin

InitFit ==
  /\ MainInit({[s \in Stores |-> 0]})
  /\ env = Required
  /\ RetryOff
  /\ FolderOff
  /\ tpc = "measured"
  /\ tin \in {i \in [w : 0..MaxSide, h : 0..MaxSide, pgW : 1..MaxSide, pgH : 1..MaxSide,
                      margin : Margins] :
                2 * i.margin < i.pgW /\ 2 * i.margin < i.pgH}
  /\ tout = [scaleX |-> NoFraction, scaleY |-> NoFraction,
             translateX |-> NoFraction, translateY |-> NoFraction]
  /\ NameOff
  /\ ElemOff
  /\ SheetsOff

NextFit == FitTransform

SpecFit == InitFit /\ [][NextFit]_vars

\* ---------- insertChartAndFit of the one-page-per-chart pipeline (part_001)
\* Math.min of two fractions with positive denominators
MinFraction(f, g) == IF f.num * g.den <= g.num * f.den THEN f ELSE g
\* f <= k
AtMost(f, k) == f.num <= k * f.den
\* f + g
Plus(f, g) == [num |-> f.num * g.den + g.num * f.den, den |-> f.den * g.den]

\* as UniformScale, but the larger of the two ratios is taken
UniformScale_Max(pgW, eW, pgH, eH) ==
  IF MinFraction(Quotient(pgW, eW), Quotient(pgH, eH)) = Quotient(pgW, eW)
    THEN Quotient(pgH, eH) ELSE Quotient(pgW, eW)

\* scale = Math.min(pgW / elemW, pgH / elemH)
UniformScale(pgW, eW, pgH, eH) == MinFraction(Quotient(pgW, eW), Quotient(pgH, eH))

\* part_001 lines 193-199: the transform of the fit batchUpdate
FitUniform ==
  /\ tpc = "measured"
  /\ tout' = [scaleX |-> UniformScale(tin.pgW, elemW, tin.pgH, elemH),
              scaleY |-> UniformScale(tin.pgW, elemW, tin.pgH, elemH),
              translateX |-> TranslateFor(tin.pgW, elemW,
                                          UniformScale(tin.pgW, elemW, tin.pgH, elemH)),
              translateY |-> TranslateFor(tin.pgH, elemH,
                                          UniformScale(tin.pgW, elemW, tin.pgH, elemH))]
  /\ tpc' = "done"
  /\ UNCHANGED <<pvars, rvars, fvars, nvars, evars, gvars, tin>>

\* the sizes read back and the page size; this variant has no margin
InitFitUniform ==
  /\ MainInit({[s \in Stores |-> 0]})
  /\ env = Required
  /\ RetryOff
  /\ FolderOff
  /\ tpc = "measured"
  /\ tin \in [w : 0..MaxSide, h : 0..MaxSide, pgW : 1..MaxSide, pgH : 1..MaxSide,
               margin : {0}]
  /\ tout = [scaleX |-> NoFraction, scaleY |-> NoFraction,
             translateX |-> NoFraction, translateY |-> NoFraction]
  /\ NameOff
  /\ ElemOff
  /\ SheetsOff

NextFitUniform == FitUniform

SpecFitUniform == InitFitUniform /\ [][NextFitUniform]_vars

\* ------------------------------------------- the file name of a chart's PDF
TITLE_CAP == 80
MaxOver == 2
MaxEdge == 1

\* the characters of /[\\/:*?"<>|]/
Forbidden == {"\\", "/", ":", "*", "?", "\"", "<", ">", "|"}
Alphabet == Forbidden \cup {"a", "_"}

FILE_PREFIX == <<"G", "r", "a", "f", "i", "c", "o">>
ARENAL == <<"A", "R", "E", "N", "A", "L">>
DRUNI == <<"D", "R", "U", "N", "I">>
Sales == <<"S", "a", "l", "e", "s">>
DATE_STR == <<"2", "0", "2", "4", "-", "0", "1", "-", "0", "1">>

\* x repeated n times
Repeat(x, n) == [k \in 1..n |-> x]

\* the chart titles tried: short ones, and long ones with any character at
\* either end and a run of one character up to and beyond the cap
Edges == SeqsUpTo(Alphabet, MaxEdge)
RunLengths == {0} \cup ((TITLE_CAP - 2)..(TITLE_CAP + MaxOver))
Titles ==
  {pre \o Repeat(x, n) \o suf : pre \in Edges, suf \in Edges, x \in {"a", "/"}, n \in RunLengths}
    \cup {Sales, <<"a", "/", "b">>}

\* the decimal digits of idx, as the template literal writes it
Digit(d) == CASE d = 0 -> "0" [] d = 1 -> "1" [] d = 2 -> "2" [] d = 3 -> "3" [] d = 4 -> "4"
              [] d = 5 -> "5" [] d = 6 -> "6" [] d = 7 -> "7" [] d = 8 -> "8" [] d = 9 -> "9"
IndexString(n) == IF n < 10 THEN <<Digit(n)>> ELSE <<Digit(n \div 10), Digit(n % 10)>>

\* as FallbackTitle, but with the 0-based i of charts.map
FallbackTitle_ZeroBased(idx) == FILE_PREFIX \o <<"_">> \o IndexString(idx - 1)

\* `${FILE_PREFIX}_${idx}`
FallbackTitle(idx) == FILE_PREFIX \o <<"_">> \o IndexString(idx)

\* as ReplaceForbidden, but the characters are removed
ReplaceForbidden_Strips(str) == SelectSeq(str, LAMBDA ch : ch \notin Forbidden)

\* .replace(/[\\/:*?"<>|]/g, '_')
ReplaceForbidden(str) == [k \in 1..Len(str) |-> IF str[k] \in Forbidden THEN "_" ELSE str[k]]

\* as Slice80, but nothing is cut
Slice80_Whole(str) == str

\* .slice(0, 80)
Slice80(str) == SubSeq(str, 1, Min(Len(str), TITLE_CAP))

\* line 287: (c.title || `${FILE_PREFIX}_${idx}`).replace(...).slice(0, 80)
TitleOf(ctitle, idx) ==
  Slice80(ReplaceForbidden(IF ctitle = << >> THEN FallbackTitle(idx) ELSE ctitle))

\* line 288: `${tienda}__${title}__${DATE_STR}.pdf`
FileNameOf(tienda, title, date) ==
  tienda \o <<"_", "_">> \o title \o <<"_", "_">> \o date \o <<".", "p", "d", "f">>

\* lines 286-288 of the limit() callback
ComposeFileName ==
  /\ npc = "called"
  /\ nout' = [title |-> TitleOf(nin.ctitle, nin.idx),
              fileName |-> FileNameOf(nin.tienda, TitleOf(nin.ctitle, nin.idx), nin.date)]
  /\ npc' = "named"
  /\ UNCHANGED <<pvars, rvars, fvars, tvars, evars, gvars, nin>>

InitName ==
  /\ MainInit({[s \in Stores |-> 0]})
  /\ env = Required
  /\ RetryOff
  /\ FolderOff
  /\ FitOff
  /\ npc = "called"
  /\ nin \in [tienda : {ARENAL, DRUNI}, ctitle : Titles \cup {<< >>}, idx : 1..MaxCharts,
               date : {DATE_STR}]
  /\ nout = [title |-> << >>, fileName |-> << >>]
  /\ ElemOff
  /\ SheetsOff

NextName == ComposeFileName

SpecName == InitName /\ [][NextName]_vars

\* --------------------------- the chart elements of a store's slide, by id
MaxClock == 2

\* the chartIds a sheet can report: distinct numbers of one and two digits
ChartIds == {10 * k + 1 : k \in 0..(MaxCharts - 1)}

\* the lists sh.charts can be: the API reports each chart of the sheet once
ChartLists ==
  {q \in SeqsUpTo(ChartIds, MaxCharts) : q # << >> /\ \A a, b \in 1..Len(q) : a < b => q[a] < q[b]}

\* as ChartElemId, but the id is made of the time alone
ChartElemId_TimeOnly(chartId, now) ==
  <<"c", "h", "a", "r", "t", "_">> \o IndexString(now)

\* line 132: `chart_${chartId}_${Date.now()}`
ChartElemId(chartId, now) ==
  <<"c", "h", "a", "r", "t", "_">> \o IndexString(chartId) \o <<"_">> \o IndexString(now)

\* the steps of a callback whose request names the element
ElemRetrySteps == {"createChart", "fit", "deleteElement"}
ElemKind(st) == CASE st = "createChart" -> "createSheetsChart"
                  [] st = "fit" -> "updatePageElementTransform"
                  [] st = "deleteElement" -> "deleteObject"

\* the request of the attempt of task c in progress: its objectId is the
\* chartElemId (objId in main) of the callback
Request(c) == [task |-> c, kind |-> ElemKind(etask[c].st), objectId |-> etask[c].id]

ElemRunning == {c \in Charts : etask[c].st \in ElemRetrySteps \cup {"export"}}

\* the clock goes on
ElemTick ==
  /\ enow > 0 /\ enow < MaxClock
  /\ enow' = enow + 1
  /\ UNCHANGED <<pvars, rvars, fvars, tvars, nvars, gvars, echarts, etask, epage, ereqs>>

\* pLimit starts the next callback; insertChartAndFit computes chartElemId
\* before its first await
ElemStart(c) ==
  /\ etask[c].st = "queued"
  /\ \A d \in 1..(c - 1) : etask[d].st # "queued"
  /\ Cardinality(ElemRunning) < CONCURRENCY
  /\ etask' = [etask EXCEPT ![c] = [st |-> "createChart", i |-> 1,
                                     id |-> ChartElemId(echarts[c], enow)]]
  /\ UNCHANGED <<pvars, rvars, fvars, tvars, nvars, gvars, enow, echarts, epage, ereqs>>

\* an attempt fails and attempts remain: the same closure is called again
ElemAttemptFail(c) ==
  /\ etask[c].st \in ElemRetrySteps
  /\ ~LastAttempt(etask[c].i)
  /\ ereqs' = ereqs \cup {Request(c)}
  /\ etask' = [etask EXCEPT ![c].i = @ + 1]
  /\ UNCHANGED <<pvars, rvars, fvars, tvars, nvars, gvars, enow, echarts, epage>>

\* the last attempt fails: the callback's catch, the callback returns
ElemExhausted(c) ==
  /\ etask[c].st \in ElemRetrySteps
  /\ LastAttempt(etask[c].i)
  /\ ereqs' = ereqs \cup {Request(c)}
  /\ etask' = [etask EXCEPT ![c].st = "finished", ![c].i = 0]
  /\ UNCHANGED <<pvars, rvars, fvars, tvars, nvars, gvars, enow, echarts, epage>>

\* createSheetsChart answered: the slide has an element of that object id
ElemCreateOk(c) ==
  /\ etask[c].st = "createChart"
  /\ ereqs' = ereqs \cup {Request(c)}
  /\ epage' = epage \cup {Request(c).objectId}
  /\ etask' = [etask EXCEPT ![c].st = "fit", ![c].i = 1]
  /\ UNCHANGED <<pvars, rvars, fvars, tvars, nvars, gvars, enow, echarts>>

\* updatePageElementTransform answered; the export and the upload follow
ElemFitOk(c) ==
  /\ etask[c].st = "fit"
  /\ ereqs' = ereqs \cup {Request(c)}
  /\ etask' = [etask EXCEPT ![c].st = "export", ![c].i = 0]
  /\ UNCHANGED <<pvars, rvars, fvars, tvars, nvars, gvars, enow, echarts, epage>>

\* export and upload succeeded, or one of them failed for good
ElemExportUpload(c) ==
  /\ etask[c].st = "export"
  /\ \E ok \in BOOLEAN :
       etask' = [etask EXCEPT ![c].st = IF ok THEN "deleteElement" ELSE "finished",
                              ![c].i = IF ok THEN 1 ELSE 0]
  /\ UNCHANGED <<pvars, rvars, fvars, tvars, nvars, gvars, enow, echarts, epage, ereqs>>

\* deleteObject answered: the element of that object id is gone
ElemDeleteOk(c) ==
  /\ etask[c].st = "deleteElement"
  /\ ereqs' = ereqs \cup {Request(c)}
  /\ epage' = epage \ {Request(c).objectId}
  /\ etask' = [etask EXCEPT ![c].st = "finished", ![c].i = 0]
  /\ UNCHANGED <<pvars, rvars, fvars, tvars, nvars, gvars, enow, echarts>>

\* line 285: the callbacks of the store's charts are submitted
InitElem ==
  /\ MainInit({[s \in Stores |-> 0]})
  /\ env = Required
  /\ RetryOff
  /\ FolderOff
  /\ FitOff
  /\ NameOff
  /\ enow = 1
  /\ echarts \in ChartLists
  /\ etask = [c \in Charts |-> [st |-> IF c <= Len(echarts) THEN "queued" ELSE "idle",
                                 i |-> 0, id |-> << >>]]
  /\ epage = {}
  /\ ereqs = {}
  /\ SheetsOff

NextElem ==
  \/ ElemTick
  \/ \E c \in Charts : ElemStart(c)
  \/ \E c \in Charts : ElemAttemptFail(c)
  \/ \E c \in Charts : ElemExhausted(c)
  \/ \E c \in Charts : ElemCreateOk(c)
  \/ \E c \in Charts : ElemFitOk(c)
  \/ \E c \in Charts : ElemExportUpload(c)
  \/ \E c \in Charts : ElemDeleteOk(c)

SpecElem == InitElem /\ [][NextElem]_vars

\* ---------------------------- crearGraficosParaTodas, crearGraficosDeTienda
MaxRuns == 2

\* a title is the sequence of its parts; the two suffixes the filter looks
\* for are parts of their own (the accent of ' - Gráfico' is left out)
CALC_SUFFIX == " - Calc"
GRAFICO_SUFFIX == " - Grafico"

\* title.endsWith(suffix)
EndsWith(title, suffix) == title # << >> /\ title[Len(title)] = suffix

\* `${tienda} - Calc`
CalcTitle(tienda) == Append(tienda, CALC_SUFFIX)

GridSheet(title, run, vals) ==
  [title |-> title, type |-> "GRID", by |-> run, vals |-> vals, a1 |-> 0, made |-> 0, src |-> 0]

\* the sheet addChart makes with position.newSheet: a sheet of type OBJECT
\* that holds the chart g, whose ranges lie in the sheet src
ChartSheet(title, run, g, src) ==
  [title |-> title, type |-> "OBJECT", by |-> run, vals |-> FALSE, a1 |-> 0, made |-> g,
   src |-> src]

\* the sheets a spreadsheet can hold before the first run: the stores' sheets
\* and what a user may have added by hand
UserSheets ==
  << GridSheet(<<"A">>, 0, TRUE), GridSheet(<<"B">>, 0, TRUE),
     GridSheet(<<"A", CALC_SUFFIX>>, 0, TRUE), GridSheet(<<"X", GRAFICO_SUFFIX>>, 0, TRUE),
     ChartSheet(<<"Chart", "0">>, 0, 0, 0) >>

\* the elements of q at the indices in S, in order
RECURSIVE Pick(_, _)
Pick(q, S) ==
  IF S = {} THEN << >>
  ELSE LET m == CHOOSE x \in S : \A y \in S : x <= y IN <<q[m]>> \o Pick(q, S \ {m})

Spreadsheets == {Pick(UserSheets, S) : S \in {T \in SUBSET (1..Len(UserSheets)) : T \cap {1, 2} # {}}}

Ids(ss) == [k \in 1..Len(ss) |-> k]

\* as Hojas, but the filter lacks its test of ' - Calc'
Hojas_KeepsCalc(ss) ==
  SelectSeq(Ids(ss), LAMBDA k : /\ ss[k].type = "GRID"
                                /\ ss[k].title # << >>
                                /\ ~EndsWith(ss[k].title, GRAFICO_SUFFIX))

\* lines 324-335: the GRID sheets whose title ends neither in ' - Calc' nor
\* in ' - Gráfico'
Hojas(ss) ==
  SelectSeq(Ids(ss), LAMBDA k : /\ ss[k].type = "GRID"
                                /\ ss[k].title # << >>
                                /\ ~EndsWith(ss[k].title, CALC_SUFFIX)
                                /\ ~EndsWith(ss[k].title, GRAFICO_SUFFIX))

\* ss.data.sheets.find(s => s.properties.title === calcTitle): its id, or 0
FindSheet(ss, title) ==
  IF \E k \in 1..Len(ss) : ss[k].title = title
    THEN CHOOSE k \in 1..Len(ss) : ss[k].title = title /\ \A m \in 1..(k - 1) : ss[m].title # title
    ELSE 0

\* the four charts: G1 clicks per day, G2 device share, G3 top products, G4
\* average price per day
Graphs == 1..4

\* the requests of the final batchUpdate, in the order they were pushed
SetCells(sheetId) == [op |-> "updateCells", sheet |-> sheetId, g |-> 0]
ClearCells(cid) == [op |-> "clear", sheet |-> cid, g |-> 0]
\* pivot({ rows, values }): the pivot table of chart g at A1 of the Calc sheet
PivotReq(cid, g) == [op |-> "pivot", sheet |-> cid, g |-> g]
\* lineChart / pieChart / barChart: addChart on a new sheet, its ranges are
\* columns of the Calc sheet
AddChartReq(cid, g) == [op |-> "addChart", sheet |-> cid, g |-> g]

RECURSIVE GraphReqs(_, _)
GraphReqs(cid, g) ==
  IF g > 4 THEN << >> ELSE <<PivotReq(cid, g), AddChartReq(cid, g)>> \o GraphReqs(cid, g + 1)

\* lines 345-379: the two cells of column I, and the clear of a Calc sheet
\* that was found (cid is 0 when none was)
FirstReqs(sheetId, cid) ==
  <<SetCells(sheetId), SetCells(sheetId)>> \o (IF cid # 0 THEN <<ClearCells(cid)>> ELSE << >>)

NumChartSheets(ss) == Cardinality({k \in 1..Len(ss) : ss[k].type = "OBJECT"})

\* what one request of a batchUpdate does to the spreadsheet
ApplyReq(ss, r, run) ==
  CASE r.op = "updateCells" -> [ss EXCEPT ![r.sheet].vals = TRUE]
    [] r.op = "clear" -> [ss EXCEPT ![r.sheet].vals = FALSE]
    [] r.op = "pivot" -> [ss EXCEPT ![r.sheet].a1 = r.g]
    [] r.op = "addChart" ->
         Append(ss, ChartSheet(<<"Chart">> \o IndexString(NumChartSheets(ss)), run, r.g, r.sheet))

\* a batchUpdate applies its requests in order
RECURSIVE ApplyReqs(_, _, _)
ApplyReqs(ss, rs, run) ==
  IF rs = << >> THEN ss ELSE ApplyReqs(ApplyReq(ss, Head(rs), run), Tail(rs), run)

\* the run is over: crearGraficosParaTodas returned or rejected
RunOver ==
  /\ gpc' = "idle"
  /\ hojas' = << >>
  /\ hidx' = 0
  /\ calcId' = 0
  /\ reqs' = << >>

\* the for loop of line 337 calls crearGraficosDeTienda for hojas[k], which
\* awaits its spreadsheets.get; after the last store the run returns
CallTienda(hs, k) ==
  IF k > Len(hs)
    THEN RunOver /\ UNCHANGED gcalls
    ELSE /\ gpc' = "tiendaGet"
         /\ hojas' = hs
         /\ hidx' = k
         /\ calcId' = 0
         /\ reqs' = << >>
         /\ gcalls' = gcalls \cup {<<gruns, hs[k]>>}

\* crearGraficosParaTodas is called
RunStart ==
  /\ gpc = "idle"
  /\ gruns < MaxRuns
  /\ gruns' = gruns + 1
  /\ gpc' = "list"
  /\ UNCHANGED <<pvars, rvars, fvars, tvars, nvars, evars, ssheets, hojas, hidx, calcId,
                 reqs, gcalls>>

\* line 322 answered: hojas is computed, the loop begins
ListOk ==
  /\ gpc = "list"
  /\ CallTienda(Hojas(ssheets), 1)
  /\ UNCHANGED <<pvars, rvars, fvars, tvars, nvars, evars, ssheets, gruns>>

\* line 367 answered: the Calc sheet is looked up by title
TiendaGetOk ==
  /\ gpc = "tiendaGet"
  /\ calcId' = FindSheet(ssheets, CalcTitle(ssheets[hojas[hidx]].title))
  /\ reqs' = FirstReqs(hojas[hidx], calcId')
  /\ gpc' = IF calcId' # 0 THEN "batch" ELSE "addSheet"
  /\ UNCHANGED <<pvars, rvars, fvars, tvars, nvars, evars, ssheets, gruns, hojas, hidx, gcalls>>

\* lines 381-385: addSheet answered with the id of the new Calc sheet
AddSheetOk ==
  /\ gpc = "addSheet"
  /\ ssheets' = Append(ssheets,
                       GridSheet(CalcTitle(ssheets[hojas[hidx]].title), gruns, FALSE))
  /\ calcId' = Len(ssheets) + 1
  /\ gpc' = "batch"
  /\ UNCHANGED <<pvars, rvars, fvars, tvars, nvars, evars, gruns, hojas, hidx, reqs, gcalls>>

\* lines 496-524: the pivots and charts of G1..G4 are pushed and the
\* batchUpdate answered: every request was applied; on to the next store
BatchUpdateOk ==
  /\ gpc = "batch"
  /\ ssheets' = ApplyReqs(ssheets, reqs \o GraphReqs(calcId, 1), gruns)
  /\ CallTienda(hojas, hidx + 1)
  /\ UNCHANGED <<pvars, rvars, fvars, tvars, nvars, evars, gruns>>

\* an await of the run rejects: nothing catches it, the run is over
SheetsCallFails ==
  /\ gpc \in {"list", "tiendaGet", "addSheet", "batch"}
  /\ RunOver
  /\ UNCHANGED <<pvars, rvars, fvars, tvars, nvars, evars, ssheets, gruns, gcalls>>

InitSheets ==
  /\ MainInit({[s \in Stores |-> 0]})
  /\ env = Required
  /\ RetryOff
  /\ FolderOff
  /\ FitOff
  /\ NameOff
  /\ ElemOff
  /\ ssheets \in Spreadsheets
  /\ gpc = "idle" /\ gruns = 0 /\ hojas = << >> /\ hidx = 0 /\ calcId = 0
  /\ reqs = << >> /\ gcalls = {}

NextSheets ==
  \/ RunStart
  \/ ListOk
  \/ TiendaGetOk
  \/ AddSheetOk
  \/ BatchUpdateOk
  \/ SheetsCallFails

SpecSheets == InitSheets /\ [][NextSheets]_vars

\* =================================================================== claims
InFlightCharts == {c \in Charts : InFlight(c)}
PresExists(s) == pres[s] \in {"created", "openFailed", "open", "deleted"}
RunEnded == pc \in {"done", "crashed"}

\* C1: at every point of the run at most CONCURRENCY = 2 chart tasks have
\* started and not finished; a task in a backoff sleep or in its pause after
\* a success counts as in flight.
C1_InFlightAtMostConcurrency ==
  /\ CONCURRENCY = 2
  /\ Cardinality(InFlightCharts) <= 2
  /\ activeCount = Cardinality(InFlightCharts)

\* a store with three charts: one task in a backoff sleep, one in its pause,
\* the third still queued
C1_Witness ==
  \E a, b, c \in Charts :
    /\ task[a].slp
    /\ task[b].st = "pause"
    /\ task[c].st = "queued"

\* C2: on the shared slide the insert..delete-element sequence of one chart
\* is never interleaved with a step of another chart: no two chart tasks
\* have both inserted their element and gone on to a later step before
\* either has deleted its element.
AfterInsert(c) == task[c].st \in {"fit", "export", "readStream", "upload", "deleteElement"}

C2_SequencesNotInterleaved ==
  \A a, b \in Charts : (a # b /\ AfterInsert(a)) => ~AfterInsert(b)

\* C3: charts that fail for good neither cancel nor block the other charts
\* of the store: the batch ends only when every chart has its outcome, a
\* successful one is uploaded and counted, and the destroy of the store's
\* presentation is entered exactly once.
C3_FaultIsolation ==
  /\ pc # "batch" => \A c \in Charts : ~InFlight(c) /\ task[c].st # "queued"
  /\ \A s \in Stores : destroyOps[s] <= 1
  /\ \A s \in Stores : (pres[s] = "open" /\ destroyOps[s] = 0) => (s = cur /\ pc = "batch")
  /\ \A s \in Stores : (pres[s] \in {"open", "deleted"} /\ (s < cur \/ pc = "destroy"))
                          => destroyOps[s] = 1
  /\ pc = "destroy" =>
       /\ \A c \in 1..sheet[cur] : outcome[c] \in {"ok", "fail"}
       /\ \A c \in Charts : outcome[c] = "ok" => c \in uploaded
       /\ total >= Cardinality({c \in Charts : outcome[c] = "ok"})

\* chart 2 of 3 failed, charts 1 and 3 succeeded, the destroy is under way
C3_Witness ==
  /\ pc = "destroy"
  /\ sheet[cur] = 3
  /\ outcome[1] = "ok" /\ outcome[2] = "fail" /\ outcome[3] = "ok"
  /\ uploaded = {1, 3}
  /\ destroyOps[cur] = 1

\* C4: when the run is over, every scratch presentation that was created
\* has had its destroy attempted.
C4_CreatedPresentationDestroyed ==
  RunEnded => \A s \in Stores : PresExists(s) => destroyOps[s] >= 1

\* C5: a failure to open the scratch session of a store does not end the
\* run: the store is skipped.
C5_SessionOpenFailureSkipsStore ==
  \A s \in Stores : pres[s] \in {"copyFailed", "openFailed"} => pc # "crashed"

\* C6: a store whose dated folder cannot be resolved gets no presentation,
\* no chart task and no upload, and the loop goes on to the next store.
C6_FolderFailureSkipsOnlyThatStore ==
  /\ \A s \in Stores : dateFolder[s] = "failed" =>
       /\ cur > s
       /\ pres[s] = "none"
       /\ destroyOps[s] = 0
       /\ uploads[s] = 0
  /\ pc \in {"copy", "slidesGet", "batch", "destroy"} => dateFolder[cur] = "resolved"

\* a store was skipped for its folder, a later store uploaded a PDF and the
\* total was reported
C6_Witness ==
  /\ pc = "done"
  /\ \E s, t \in Stores : s < t /\ dateFolder[s] = "failed" /\ uploads[t] > 0
  /\ reported > 0

\* C7: a chart whose PDF was uploaded is a success whatever happens to the
\* deletion of its element afterwards.
C7_CleanupFailureNotEscalated ==
  \A c \in Charts : (c \in uploaded /\ task[c].st = "finished") => outcome[c] = "ok"

RECURSIVE Pow2(_)
Pow2(n) == IF n = 0 THEN 1 ELSE 2 * Pow2(n - 1)

\* C8: withRetry raises only after exactly MAX_RETRIES = 5 invocations of
\* the operation, all failed, whatever the kinds of the errors.
C8_ExactlyFiveAttempts ==
  /\ rcalls <= 5
  /\ rpc = "raised" => (rcalls = 5 /\ Len(rerrs) = 5)
  /\ (rpc # "raised" /\ rpc # "returned") => rthrown = << >>

\* five failures, a permanent error first and errors of every kind among them
C8_Witness ==
  /\ rpc = "raised"
  /\ rcalls = 5
  /\ rerrs[1].kind = "permanent"
  /\ {rerrs[k].kind : k \in 1..5} = {"transient", "permanent", "value"}

\* C9 as stated: in every withRetry of the repository the base wait before
\* the k-th retry is min(700 * 2^(k-1), 8000) ms.
C9_BaseWaitFrom700 ==
  \A k \in 1..Len(rwaits) : rwaits[k] = Min(700 * Pow2(k - 1), 8000)

\* C9 as amended: the base wait before the k-th retry is
\* min(w0 * 2^(k-1), 8000) ms with w0 = 600 in the withRetry of the PNG
\* pipeline and w0 = 700 in every other withRetry; the sleep is the base
\* wait plus a jitter in [0, 300); the base wait never decreases and never
\* exceeds 8000.
C9_BaseWaitPerSource ==
  /\ Len(rwaits) <= 4
  /\ \A k \in 1..Len(rwaits) :
       /\ rwaits[k] = Min((IF rsrc = "part_001:622" THEN 600 ELSE 700) * Pow2(k - 1), 8000)
       /\ rwaits[k] <= 8000
       /\ k > 1 => rwaits[k - 1] <= rwaits[k]
  /\ rpc = "sleep" =>
       /\ rslept >= rwaits[Len(rwaits)]
       /\ rslept < rwaits[Len(rwaits)] + 300

\* the fourth backoff sleep of the PNG pipeline's withRetry: base wait 4800,
\* largest jitter
C9_Witness ==
  /\ rsrc = "part_001:622"
  /\ rpc = "sleep"
  /\ rwaits = <<600, 1200, 2400, 4800>>
  /\ rslept = 5099

\* C10: the error raised on exhaustion carries the tag given to withRetry
\* and the message of the error of the last attempt.
C10_RaisedCarriesTagAndLastMessage ==
  rpc = "raised" =>
    /\ rthrown[1] = rtag
    /\ rthrown[Len(rthrown)] = ErrText(rerrs[5])

\* raised after five failures whose first and last messages differ
C10_Witness ==
  /\ rpc = "raised"
  /\ ErrText(rerrs[1]) # ErrText(rerrs[5])
  /\ rthrown[Len(rthrown)] = ErrText(rerrs[5])

\* C11: when fn fails k < 5 times and then succeeds, withRetry has invoked it
\* k + 1 times and slept k times, returns the value of the successful
\* attempt, is not sleeping and has raised nothing.
C11_SuccessAfterFailures ==
  rpc = "returned" =>
    /\ Len(rerrs) < 5
    /\ rcalls = Len(rerrs) + 1
    /\ Len(rwaits) = Len(rerrs)
    /\ rret = rresolved /\ rret \in Values
    /\ rslept = 0
    /\ rthrown = << >>

\* four failures, then the fifth attempt succeeds
C11_Witness ==
  /\ rpc = "returned"
  /\ Len(rerrs) = 4
  /\ rcalls = 5
  /\ rret = "v2"

\* both calls of ensureDatedSubfolder have returned a folder id
BothReturned == Len(fret) = 2 /\ fret[1] > 0 /\ fret[2] > 0
SamePair == fargs[1] = fargs[2]

StepAfter(st) ==
  CASE st = "createChart" -> "getAfterInsert"
    [] st = "getAfterInsert" -> "fit"
    [] st = "fit" -> "export"
    [] st = "export" -> "readStream"
    [] st = "readStream" -> "upload"
    [] st = "upload" -> "deleteElement"
    [] st = "deleteElement" -> "pause"
    [] st = "pause" -> "finished"

\* C14: a chart task moves only from a step that is not in a backoff sleep to
\* the step after it, in the order insert, size read-back, transform update,
\* export, stream read, upload, delete-element; a task whose step failed is
\* finished as failed and issues nothing more.
C14_StepsStrictlyOrdered ==
  [][\A c \in Charts :
       task'[c].st # task[c].st =>
         \/ /\ task[c].st \in {"idle", "queued"}
            /\ task'[c].st \in {"queued", "createChart"}
         \/ /\ task[c].st \in TaskSteps /\ ~task[c].slp
            /\ task'[c].st = StepAfter(task[c].st)
            /\ outcome'[c] # "fail"
         \/ /\ task[c].st \in TaskSteps \ {"pause"}
            /\ task'[c].st = "finished"
            /\ outcome'[c] = "fail"
         \/ /\ task[c].st = "finished"
            /\ task'[c].st = "idle"
            /\ cur' = cur + 1]_vars

\* one task reached its upload on a retried attempt while another one of the
\* store failed with its element still on the slide
C14_Witness ==
  \E c, d \in Charts :
    /\ task[c].st = "upload" /\ task[c].i = 2
    /\ task[d].st = "finished" /\ outcome[d] = "fail" /\ d \in slide

C16_SkippedStoreUntouched ==
  /\ [](\A s \in Stores : sheet[s] = 0 =>
          /\ dateFolder[s] = "unresolved"
          /\ pres[s] = "none"
          /\ destroyOps[s] = 0
          /\ uploads[s] = 0)
  /\ [][(pc = "loop" /\ cur <= NumStores /\ sheet[cur] = 0) =>
          /\ pc' = "loop" /\ cur' = cur + 1
          /\ total' = total /\ reported' = reported
          /\ activeCount' = 0 /\ queue' = << >>]_vars

\* the first store was skipped, the second one uploaded all its charts and the
\* total was reported
C16_Witness ==
  /\ pc = "done"
  /\ sheet[1] = 0 /\ sheet[2] = 2
  /\ uploads[2] = 2
  /\ reported = 2

\* some chart task of the current store was submitted
TasksSubmitted == \E c \in Charts : task[c].st # "idle"

\* C17: a store's presentation is copied only once its dated folder is
\* resolved, and its chart tasks are submitted only once the presentation is
\* open (copied and read).
C17_FolderThenSessionThenTasks ==
  /\ \A s \in Stores : pres[s] # "none" => dateFolder[s] = "resolved"
  /\ pc \in {"folderList", "folderCreate"} =>
       (dateFolder[cur] = "unresolved" /\ pres[cur] = "none" /\ ~TasksSubmitted)
  /\ pc = "copy" => (pres[cur] = "none" /\ ~TasksSubmitted)
  /\ pc = "slidesGet" => (pres[cur] = "created" /\ ~TasksSubmitted)
  /\ TasksSubmitted =>
       /\ cur <= NumStores
       /\ pc \in {"batch", "destroy"}
       /\ pres[cur] = "open"
       /\ dateFolder[cur] = "resolved"

\* the first chart of the second store is inserted after the folder was
\* created and the presentation opened; the first store had lost its folder
C17_Witness ==
  /\ cur = 2 /\ pc = "batch"
  /\ dateFolder = <<"failed", "resolved">>
  /\ pres[2] = "open"
  /\ task[1].st = "createChart" /\ task[1].i = 1

\* a presentation of the store exists and its destroy was not attempted yet
Undestroyed(s) == PresExists(s) /\ destroyOps[s] = 0

\* C18: stores are processed one after another: only the current store can
\* have a presentation whose destroy was not attempted, a later store has
\* had no remote call, and the limiter is empty whenever main is outside a
\* batch.
C18_StoresStrictlySequential ==
  /\ \A s \in Stores : Undestroyed(s) => s = cur
  /\ \A s \in Stores : s > cur =>
       /\ dateFolder[s] = "unresolved"
       /\ pres[s] = "none"
       /\ destroyOps[s] = 0
       /\ uploads[s] = 0
  /\ pc # "batch" => (activeCount = 0 /\ queue = << >>)
  /\ pc # "batch" => \A c \in Charts : ~InFlight(c) /\ task[c].st # "queued"

\* the second store's batch runs with both slots of the limiter taken after
\* the first store's presentation was deleted
C18_Witness ==
  /\ cur = 2 /\ pc = "batch"
  /\ pres = <<"deleted", "open">>
  /\ uploads[1] = 1
  /\ activeCount = CONCURRENCY

\* C19: the destroy of the presentation is entered only when every chart
\* task of the store has finished, as a success or as a failure: none is in
\* flight, none is queued in the limiter.
C19_DestroyAfterAllTasks ==
  /\ pc = "destroy" =>
       /\ \A c \in Charts : ~InFlight(c) /\ task[c].st # "queued"
       /\ \A c \in 1..sheet[cur] : task[c].st = "finished" /\ outcome[c] \in {"ok", "fail"}
       /\ queue = << >>
       /\ activeCount = 0
  /\ \A s \in Stores : destroyOps[s] > 0 => (s < cur \/ (s = cur /\ pc = "destroy"))

\* the destroy is retried after all three charts of the store failed
C19_Witness ==
  /\ pc = "destroy" /\ mi = 3
  /\ sheet[cur] = 3
  /\ \A c \in Charts : outcome[c] = "fail"
  /\ uploaded = {}

\* C20: when the destroy of a store's presentation fails for good, main only
\* moves on to the next store: the total and the uploads stay as they were,
\* and a run that exits with an error has not exited in a destroy.
C20_DestroyFailureOnlyLogged ==
  /\ [][(pc = "destroy" /\ pc' # "destroy" /\ pres'[cur] # "deleted") =>
          /\ pc' = "loop" /\ cur' = cur + 1
          /\ total' = total /\ uploads' = uploads
          /\ pres' = pres]_vars
  /\ [](pc = "crashed" => pres[cur] \in {"none", "copyFailed", "openFailed"})
  /\ [](pc = "done" => reported = total)

\* the first store's presentation could not be deleted; its upload is counted,
\* the second store uploaded too and the total was reported
C20_Witness ==
  /\ pc = "done"
  /\ pres = <<"open", "deleted">>
  /\ destroyOps = <<1, 1>>
  /\ uploads[1] = 1 /\ uploads[2] = 2
  /\ reported = 3

\* the chart tasks that complete as successes in the step
NewSuccesses == {c \in Charts : outcome'[c] = "ok" /\ outcome[c] # "ok"}

\* C21: whatever the interleaving of the chart tasks, every step raises total
\* by exactly the number of tasks that completed as successes in it, so total
\* never decreases and counts no failed chart, and the total that is reported
\* at the end is that count.
C21_TotalCountsSuccesses ==
  /\ [][total' = total + Cardinality(NewSuccesses)]_vars
  /\ [][reported' # reported => (reported' = total /\ pc' = "done")]_vars
  /\ [](total <= SumTo(uploads, NumStores))
  /\ [](pc = "done" => reported = total)

\* three PDFs were uploaded, one of those charts failed afterwards in the
\* deletion of its element: the reported total is 2
C21_Witness ==
  /\ pc = "done"
  /\ SumTo(uploads, NumStores) = 3
  /\ reported = 2
  /\ destroyOps = <<1, 1>>

\* C22: whatever the chart title, the title segment of the file name has
\* none of the nine characters \ / : * ? " < > | and at most 80 characters.
C22_TitleSegmentSafeAndCapped ==
  npc = "named" =>
    /\ \A k \in 1..Len(nout.title) : nout.title[k] \notin Forbidden
    /\ Len(nout.title) <= 80
    /\ SubSeq(nout.fileName, Len(nin.tienda) + 3, Len(nin.tienda) + 2 + Len(nout.title)) = nout.title

\* a title of 83 characters: a forbidden one first, a run of 81 slashes, a
\* forbidden one last; the segment is 80 underscores
C22_Witness ==
  /\ npc = "named"
  /\ Len(nin.ctitle) = 83
  /\ nin.ctitle[1] = "?" /\ nin.ctitle[2] = "/" /\ nin.ctitle[83] = "|"
  /\ nout.title = Repeat("_", 80)

\* str without its forbidden characters
Stripped(str) == SelectSeq(str, LAMBDA ch : ch \notin Forbidden)
\* the first n characters of str
FirstChars(str, n) == SubSeq(str, 1, Min(Len(str), n))

\* C23: the sanitized title is the chart title with every forbidden character
\* removed, cut to its first 80 characters; 'a/b' gives 'ab'.
C23_ForbiddenStripped ==
  (npc = "named" /\ nin.ctitle # << >>) =>
    nout.title = FirstChars(Stripped(nin.ctitle), 80)

\* C23, as the code has it: the sanitized title is the first 80 characters of
\* the chart title with every forbidden character replaced by an underscore,
\* so it is as long as the title or 80 characters; 'a/b' gives 'a_b'.
C23_ForbiddenReplaced ==
  (npc = "named" /\ nin.ctitle # << >>) =>
    /\ Len(nout.title) = Min(Len(nin.ctitle), 80)
    /\ \A k \in 1..Len(nout.title) :
         nout.title[k] = IF nin.ctitle[k] \in Forbidden THEN "_" ELSE nin.ctitle[k]
    /\ nin.ctitle = <<"a", "/", "b">> => nout.title = <<"a", "_", "b">>

\* the title 'a/b' was sanitized to 'a_b'
C23_Witness ==
  /\ npc = "named"
  /\ nin.ctitle = <<"a", "/", "b">>
  /\ nout.title = <<"a", "_", "b">>

\* C24: the file name is the store, '__', the title, '__', the date and
\* '.pdf', the title being the sanitized chart title, or 'Grafico_' and the
\* 1-based index when the chart has none: ARENAL__Sales__2024-01-01.pdf and
\* ARENAL__Grafico_2__2024-01-01.pdf for the charts 'Sales' and '' of ARENAL.
C24_FileNameFormat ==
  npc = "named" =>
    /\ nout.fileName =
         nin.tienda \o <<"_", "_">> \o nout.title \o <<"_", "_">> \o nin.date \o <<".", "p", "d", "f">>
    /\ nin.ctitle = << >> =>
         nout.title = <<"G", "r", "a", "f", "i", "c", "o", "_">> \o <<Digit(nin.idx)>>
    /\ nin.ctitle # << >> =>
         \A k \in 1..Len(nout.title) : nout.title[k] \in {nin.ctitle[k], "_"}
    /\ (nin.tienda = ARENAL /\ nin.ctitle = Sales /\ nin.date = DATE_STR) =>
         nout.fileName = <<"A", "R", "E", "N", "A", "L", "_", "_", "S", "a", "l", "e", "s", "_", "_",
                           "2", "0", "2", "4", "-", "0", "1", "-", "0", "1", ".", "p", "d", "f">>

\* the second chart of ARENAL has no title: ARENAL__Grafico_2__2024-01-01.pdf
C24_Witness ==
  /\ npc = "named"
  /\ nin.ctitle = << >> /\ nin.idx = 2
  /\ nout.fileName = <<"A", "R", "E", "N", "A", "L", "_", "_", "G", "r", "a", "f", "i", "c", "o", "_", "2",
                       "_", "_", "2", "0", "2", "4", "-", "0", "1", "-", "0", "1", ".", "p", "d", "f">>

\* C25: every upload of a chart task of a store goes to the dated folder that
\* was resolved in this run under that store's own folder, also when the
\* task was held up by retries.
C25_UploadsToOwnDatedFolder ==
  /\ \A u \in uploadedTo : u[2] = u[1] /\ dateFolder[u[1]] = "resolved"
  /\ \A s \in Stores : uploads[s] > 0 <=> <<s, s>> \in uploadedTo
  /\ TasksSubmitted => dateFolderId = cur

\* both stores have a PDF in their own dated folder, and the second store
\* sends another one on the third attempt of its upload
C25_Witness ==
  /\ cur = 2 /\ pc = "batch"
  /\ uploadedTo = {<<1, 1>>, <<2, 2>>}
  /\ \E c \in Charts : task[c].st = "upload" /\ task[c].i = 3

\* no store has been touched
NothingIssued ==
  /\ ~remote
  /\ cur = 1 /\ total = 0
  /\ \A s \in Stores :
       dateFolder[s] = "unresolved" /\ pres[s] = "none" /\ destroyOps[s] = 0 /\ uploads[s] = 0
  /\ ~TasksSubmitted

\* C26: when a required value of the environment is missing, or no access
\* token is obtained, the run exits with status 1 before any call to Sheets,
\* Slides or Drive.
C26_MissingConfigExitsFirst ==
  /\ ~(Required \subseteq env) => (pc \in {"startup", "crashed"} /\ NothingIssued)
  /\ pc \in {"startup", "getToken"} => NothingIssued
  /\ ~remote => (pc \in {"startup", "getToken", "crashed"} /\ NothingIssued)
  /\ remote => Required \subseteq env

\* the refresh token is missing: exit(1) with nothing issued
C26_Witness ==
  /\ pc = "crashed"
  /\ env = Required \ {"GOOGLE_OAUTH_REFRESH_TOKEN"}
  /\ NothingIssued

\* C27: in the one-page-per-chart pipeline the presentation of a store is
\* destroyed once when the store's batch is over.
C27_PerChartPresentationDestroyed ==
  \A s \in Stores : (pres[s] = "open" /\ s < cur) => destroyOps[s] = 1

\* the callback of the chart has begun to run
Started(c) == task[c].st \notin {"idle", "queued"}

\* C28: the chart tasks of a store start in index order: a task has started
\* only if every task before it has, a waiting task means a full limiter,
\* and a queued task starts, as the head of the queue, in the very step in
\* which a running task finishes.
C28_TasksStartInIndexOrder ==
  /\ [](\A i, j \in Charts : (i < j /\ Started(j)) => Started(i))
  /\ []((\E c \in Charts : task[c].st = "queued") =>
          Cardinality({c \in Charts : InFlight(c)}) = CONCURRENCY)
  /\ [][\A c \in Charts :
          (task[c].st = "queued" /\ task'[c].st # "queued") =>
            /\ task'[c].st = "createChart"
            /\ c = Head(queue)
            /\ \E d \in Charts : InFlight(d) /\ task'[d].st = "finished"]_vars

\* the third chart was started when the first one finished; the second one
\* is still retrying its insert
C28_Witness ==
  /\ pc = "batch"
  /\ task[1].st = "finished" /\ outcome[1] = "ok"
  /\ task[2].st = "createChart" /\ task[2].i = 4
  /\ task[3].st = "createChart" /\ task[3].i = 1
  /\ queue = << >>

\* C29: while a chart task has an export under way, the shared slide holds
\* exactly one chart element, the one this task inserted.
C29_ExportShowsOnlyOwnChart ==
  \A c \in Charts : task[c].st \in {"export", "readStream"} => slide = {c}

\* C30: a finished chart task, a success or a failure, has left no element
\* on the shared slide.
C30_FinishedTaskLeavesNoElement ==
  \A c \in Charts : task[c].st = "finished" => c \notin slide

\* C31: every chart whose task was submitted gets exactly one outcome: the
\* success record (log OK, counted) or the failure record of the catch; an
\* outcome once recorded is never replaced by the other; a task that has
\* finished has its outcome; and no task rejects: while the tasks of a store
\* run, main() only goes on to the destroy of the presentation, with every
\* submitted chart having its outcome.
C31_OneOutcomePerChart ==
  /\ [](\A c \in Charts : task[c].st = "finished" => outcome[c] \in {"ok", "fail"})
  /\ [](\A c \in Charts : outcome[c] # "none" => task[c].st \in {"pause", "finished"})
  /\ [](pc = "destroy" => \A c \in 1..sheet[cur] : outcome[c] \in {"ok", "fail"})
  /\ [][\A c \in Charts : outcome'[c] # outcome[c] =>
          \/ outcome[c] = "none" /\ outcome'[c] \in {"ok", "fail"}
          \/ pc' = "loop" /\ outcome' = NoOutcome]_vars
  /\ [][pc = "batch" => pc' \in {"batch", "destroy"}]_vars

\* three charts: the first failed at its insert, the second after its insert
\* (its element is still on the slide), the third succeeded; Promise.all has
\* resolved
C31_Witness ==
  /\ pc = "destroy"
  /\ sheet[cur] = 3
  /\ outcome = <<"fail", "fail", "ok">>
  /\ slide = {2}
  /\ uploaded = {3}

\* C32: a chart is recorded as failed only when the remote step it failed in
\* has just been attempted MAX_RETRIES times.
C32_FailedOnlyAfterMaxRetries ==
  [][\A c \in Charts : (outcome[c] = "none" /\ outcome'[c] = "fail") =>
        (task[c].st \in TaskRetrySteps /\ task[c].i = MAX_RETRIES)]_vars

\* C33: withRetry prints one diagnostic per retry: after f failed attempts
\* there are min(f, MAX_RETRIES - 1) diagnostics, as many as backoff sleeps;
\* the k-th carries the index k of the attempt that just failed and the base
\* wait of the sleep that follows it; a diagnostic is printed only on the way
\* into a sleep, so none for the last failed attempt and none for a success.
C33_OneDiagnosticPerRetry ==
  /\ [](Len(rlogs) = Min(Len(rerrs), MAX_RETRIES - 1))
  /\ [](Len(rlogs) = Len(rwaits))
  /\ [](\A k \in 1..Len(rlogs) : rlogs[k] = <<k, rwaits[k]>>)
  /\ [](rpc = "sleep" =>
          /\ rlogs[Len(rlogs)][1] = ri
          /\ rslept >= rlogs[Len(rlogs)][2]
          /\ rslept < rlogs[Len(rlogs)][2] + JITTER_MS)
  /\ [][rlogs' # rlogs =>
          (rpc' = "sleep" /\ Len(rlogs') = Len(rlogs) + 1 /\ rwaits' # rwaits)]_vars

\* all five attempts failed: four diagnostics, for attempts 1 to 4 with the
\* waits 700, 1400, 2800, 5600, and none for the fifth
C33_Witness ==
  /\ rpc = "raised"
  /\ Len(rerrs) = 5
  /\ rlogs = << <<1, 700>>, <<2, 1400>>, <<3, 2800>>, <<4, 5600>> >>

C35_TaskTouchesOnlyOwnElement ==
  /\ [](\A a, b \in Charts :
          (a # b /\ etask[a].id # << >> /\ etask[b].id # << >>) => etask[a].id # etask[b].id)
  /\ [](\A r \in ereqs : r.objectId = etask[r.task].id /\ r.objectId # << >>)
  /\ [](\A x \in epage :
          \E c \in Charts : /\ etask[c].id = x
                            /\ [task |-> c, kind |-> "createSheetsChart", objectId |-> x] \in ereqs
                            /\ \A r \in ereqs : r.objectId = x => r.task = c)
  /\ [][\A c \in Charts : etask'[c].id # etask[c].id =>
          (etask[c].st = "queued" /\ etask[c].id = << >>)]_vars
  /\ [][\A x \in epage \ epage' :
          \E c \in Charts : /\ etask[c].id = x
                            /\ etask[c].st = "deleteElement" /\ etask'[c].st = "finished"
                            /\ \A d \in Charts \ {c} : etask'[d] = etask[d]]_vars

\* two tasks started in the same millisecond; the first has deleted its
\* element while the element of the second is on the slide
C35_Witness ==
  /\ Len(echarts) >= 2
  /\ etask[1].st = "finished" /\ etask[2].st = "export"
  /\ etask[1].id = ChartElemId(echarts[1], 1) /\ etask[2].id = ChartElemId(echarts[2], 1)
  /\ [task |-> 1, kind |-> "deleteObject", objectId |-> etask[1].id] \in ereqs
  /\ epage = {etask[2].id}

\* the run is over, by the final report or by process.exit(1)
RunAlwaysEnds == <>RunEnded

\* every store's batch ends: main() does not stay in Promise.all
BatchAlwaysEnds == (pc = "batch") ~> (pc # "batch")

\* C36: when every remote call eventually returns, a run that has its chart
\* map and has entered the loop over the stores eventually reports the
\* final total, whatever fails on the way.
C36_RunReportsTotal == (pc = "loop") ~> (pc = "done" /\ reported = total)

CalcSheetsOf(title) == {k \in 1..Len(ssheets) : ssheets[k].title = CalcTitle(title)}

\* C37: however often crearGraficosParaTodas runs, no store has more than
\* one '<store> - Calc' sheet and a store whose batchUpdate was reached has
\* exactly one; addSheet is only issued when no sheet of that title exists,
\* and a Calc sheet that was found is cleared by the batchUpdate; and no
\* sheet made by a run (a Calc sheet or a chart sheet) is ever passed to
\* crearGraficosDeTienda as a store.
C37_OneCalcSheetPerStore ==
  /\ [](\A k \in 1..Len(ssheets) : Cardinality(CalcSheetsOf(ssheets[k].title)) <= 1)
  /\ [](\A call \in gcalls :
          /\ ssheets[call[2]].by = 0
          /\ ssheets[call[2]].type = "GRID"
          /\ ~EndsWith(ssheets[call[2]].title, CALC_SUFFIX))
  /\ [](gpc = "batch" => CalcSheetsOf(ssheets[hojas[hidx]].title) = {calcId})
  /\ [][(gpc = "addSheet" /\ gpc' = "batch") =>
          (/\ CalcSheetsOf(ssheets[hojas[hidx]].title) = {}
           /\ Len(ssheets') = Len(ssheets) + 1)]_vars
  /\ [][(gpc = "tiendaGet" /\ gpc' = "batch") =>
          (ssheets' = ssheets /\ ClearCells(calcId') \in {reqs'[k] : k \in 1..Len(reqs')})]_vars
  /\ [][(gpc = "batch" /\ ssheets' # ssheets) => ~ssheets'[calcId].vals]_vars

\* the second run has processed store A again: A has the one Calc sheet the
\* first run added, and eight chart sheets
C37_Witness ==
  /\ gruns = 2 /\ gpc = "idle"
  /\ \E a \in 1..Len(ssheets) :
       /\ ssheets[a].title = <<"A">>
       /\ {<<1, a>>, <<2, a>>} \subseteq gcalls
       /\ \E k \in CalcSheetsOf(<<"A">>) : ssheets[k].by = 1
       /\ Cardinality({k \in 1..Len(ssheets) : ssheets[k].made > 0 /\ ssheets[k].by = 2}) >= 4

\* C38: every chart sheet shows the pivot table it was added for: A1 of the
\* Calc sheet its ranges lie in holds the pivot table of that chart.
C38_ChartReadsItsOwnPivot ==
  \A k \in 1..Len(ssheets) :
    ssheets[k].made > 0 => ssheets[ssheets[k].src].a1 = ssheets[k].made

====
